---- MODULE Spec2Model ----
(***************************************************************************)
(* Recipe generation backends of aigohan.                                  *)
(*                                                                         *)
(* Two implementations of POST /api/recipes/generate live in the           *)
(* repository: the Hono router (routes/recipes.ts + services/ai/openai.ts) *)
(* and the NestJS stack (recipes.controller, recipes.service, AiService,   *)
(* RecipeValidator, RecipeEnhancerService, AiExceptionFilter).  One        *)
(* behaviour of this module is the handling of one request by one of them. *)
(*                                                                         *)
(* Strings are sequences of one-character strings.  Characters outside     *)
(* ASCII are written as names in angle brackets.                           *)
(***************************************************************************)
EXTENDS Integers, Sequences, FiniteSets, TLC

\* ------------------------------------------------------------------------
\* Bounds of the model
\* ------------------------------------------------------------------------
MaxItems == 2

MaxImages == 2

\* The largest upload of accepted files
MaxAccepted == 4

\* ------------------------------------------------------------------------
\* Characters and string helpers
\* ------------------------------------------------------------------------
\* An optional value (undefined / absent key in the code) is a sequence of
\* length 0 or 1.
Absent == <<>>

Some(x) == <<x>>

IsPresent(o) == o # <<>>

Get(o) == o[1]

Whitespace == {" ", "\t", "\n"}

Digits == {"0", "1", "2", "3", "4", "5", "6", "7", "8", "9"}

LowerSeq == <<"a","b","c","d","e","f","g","h","i","j","k","l","m",
              "n","o","p","q","r","s","t","u","v","w","x","y","z">>

UpperSeq == <<"A","B","C","D","E","F","G","H","I","J","K","L","M",
              "N","O","P","Q","R","S","T","U","V","W","X","Y","Z">>

Range(f) == {f[i] : i \in DOMAIN f}

LowerLatin == Range(LowerSeq)

UpperLatin == Range(UpperSeq)

\* The character class of the regular expression that detects Japanese
\* text: U+3040-309F, U+30A0-30FF (the middle dot U+30FB included) and
\* U+4E00-9FAF.
CJKChars == {"<hira>", "<nakaguro>", "<shio>", "<abura>"}

\* The alphabet in UTF-16 code-unit order (what Array.prototype.sort and
\* string comparison use).
CharOrder == <<"\t", "\n", " ", "!", ")", "*", ",", "-", ".">>
             \o <<"0", "1", "2", "3", "4", "5", "6", "7", "8", "9">>
             \o <<"?">> \o UpperSeq \o LowerSeq
             \o <<"<ten>", "<maru>", "<hira>", "<nakaguro>", "<shio>",
                  "<abura>", "<fwbang>", "<fwq>">>

CodeTable ==
  [c \in Range(CharOrder) |-> CHOOSE i \in DOMAIN CharOrder : CharOrder[i] = c]

\* String.prototype.charCodeAt, up to the order of the code units
Code(c) == CodeTable[c]

\* String.prototype.toUpperCase / toLowerCase on one character
UpperTable ==
  [c \in LowerLatin |-> UpperSeq[CHOOSE i \in DOMAIN LowerSeq : LowerSeq[i] = c]]

LowerTable ==
  [c \in UpperLatin |-> LowerSeq[CHOOSE i \in DOMAIN UpperSeq : UpperSeq[i] = c]]

UpperChar(c) == IF c \in LowerLatin THEN UpperTable[c] ELSE c

LowerChar(c) == IF c \in UpperLatin THEN LowerTable[c] ELSE c

ToLower(s) == [i \in DOMAIN s |-> LowerChar(s[i])]

\* s.replace(/^[C]+/, '')
StripLeading(s, C) ==
  LET kept == {i \in DOMAIN s : s[i] \notin C}
  IN IF kept = {} THEN <<>>
     ELSE SubSeq(s, CHOOSE i \in kept : \A j \in kept : i <= j, Len(s))

\* s.replace(/[C]+$/, '')
StripTrailing(s, C) ==
  LET kept == {i \in DOMAIN s : s[i] \notin C}
  IN IF kept = {} THEN <<>>
     ELSE SubSeq(s, 1, CHOOSE i \in kept : \A j \in kept : j <= i)

\* String.prototype.trim
Trim(s) == StripTrailing(StripLeading(s, Whitespace), Whitespace)

\* /[C]$/.test(s)
EndsWithAny(s, C) == s # <<>> /\ s[Len(s)] \in C

\* /[C]/.test(s)
ContainsAny(s, C) == \E i \in DOMAIN s : s[i] \in C

\* String.prototype.includes
Includes(s, k) ==
  \E i \in 0..(Len(s) - Len(k)) : SubSeq(s, i + 1, i + Len(k)) = k

\* s.substring(0, n)
Substring0(s, n) == SubSeq(s, 1, IF n < Len(s) THEN n ELSE Len(s))

\* s < t in JavaScript (code-unit lexicographic order)
StrLess(s, t) ==
  LET common == IF Len(s) < Len(t) THEN Len(s) ELSE Len(t)
      differ == {i \in 1..common : s[i] # t[i]}
  IN IF differ = {} THEN Len(s) < Len(t)
     ELSE LET d == CHOOSE i \in differ : \A j \in differ : i <= j
          IN Code(s[d]) < Code(t[d])

\* Array.prototype.sort() without a comparator (stable): the element at
\* index i goes behind the smaller elements and the equal earlier ones
SortStrings(seq) ==
  LET before(i) == {j \in DOMAIN seq :
                      \/ StrLess(seq[j], seq[i])
                      \/ ~StrLess(seq[i], seq[j]) /\ j < i}
  IN [k \in DOMAIN seq |->
        seq[CHOOSE i \in DOMAIN seq : Cardinality(before(i)) = k - 1]]

\* [...new Set(seq)] / Array.from(new Set(seq)): first occurrences, in order
Dedupe(seq) ==
  LET first == {i \in DOMAIN seq : \A j \in 1..(i - 1) : seq[j] # seq[i]}
  IN [k \in 1..Cardinality(first) |->
        seq[CHOOSE i \in first : Cardinality({j \in first : j <= i}) = k]]

\* Array.prototype.map
TrimAll(seq) == [i \in DOMAIN seq |-> Trim(seq[i])]

\* Sequences over S of length at most n
SeqsUpTo(S, n) == UNION {[1..k -> S] : k \in 0..n}

\* ------------------------------------------------------------------------
\* Errors
\* ------------------------------------------------------------------------
\* An exception object.  text is the message (a sequence of pieces, so
\* that a wrapping message is its prefix followed by the wrapped message),
\* marks the substrings of the message among those the code tests with
\* String.includes, origin the retry attempt that raised it (0: raised
\* outside the retry loop).
Err(cls, code, status, text, marks, origin) ==
  [cls |-> cls, code |-> code, status |-> status, text |-> text,
   marks |-> marks, origin |-> origin]

NoCode == ""

PlainError(text, marks, origin) ==
  Err("Error", NoCode, 0, <<text>>, marks, origin)

\* new BadRequestException(...) / PayloadTooLargeException
HttpError(status, text) ==
  Err("HttpException", NoCode, status, <<text>>, {}, 0)

\* Errors the provider SDK call can throw, by message
UpstreamErrors ==
  { [text |-> "rate limit exceeded", marks |-> {"rate limit"}],
    [text |-> "request timeout", marks |-> {"timeout"}],
    [text |-> "service unavailable", marks |-> {"unavailable"}],
    [text |-> "contents field is required", marks |-> {"required"}],
    [text |-> "unauthorized", marks |-> {}] }

\* ------------------------------------------------------------------------
\* Model output
\* ------------------------------------------------------------------------
StirFry == <<"S","t","i","r","-","f","r","y">>

Tasty == <<"T","a","s","t","y">>

Onion == <<"o","n","i","o","n">>

ChickenThigh == <<"c","h","i","c","k","e","n"," ","t","h","i","g","h">>

OneCut == <<"1","."," ","c","u","t">>

Ok == <<"o","k">>

\* The parsed JSON object of a model answer; every key is optional.
GoodObject ==
  [title |-> Some(StirFry), description |-> Some(Tasty),
   ingredients |-> Some(<<Onion, Onion, ChickenThigh>>),
   instructions |-> Some(<<OneCut, Ok>>),
   cookingTime |-> Some(15), servings |-> Some(2)]

NoInstructionsObject == [GoodObject EXCEPT !.instructions = Absent]

\* One short instruction, a title with surrounding blanks, no numbers
ShortOnlyObject ==
  [GoodObject EXCEPT !.title = Some(<<" ">> \o StirFry \o <<" ">>),
                     !.instructions = Some(<<Ok>>), !.cookingTime = Absent,
                     !.servings = Absent]

TofuUpper == <<"T","o","f","u">>

TofuLower == <<"t","o","f","u">>

TofuBullet == <<"-"," ","t","o","f","u">>

\* The same ingredient three times, in two spellings and once as a list
\* item, and a cooking time of three minutes
MessyObject ==
  [GoodObject EXCEPT !.ingredients = Some(<<TofuUpper, TofuLower, TofuBullet>>),
                     !.cookingTime = Some(3)]

\* Numbers below the ranges
ZeroObject == [GoodObject EXCEPT !.cookingTime = Some(0), !.servings = Some(0)]

\* Numbers above the ranges
LargeObject ==
  [GoodObject EXCEPT !.cookingTime = Some(1000), !.servings = Some(100)]

\* A first instruction that is a list marker only
DashStepObject == [GoodObject EXCEPT !.instructions = Some(<< <<"-">>, OneCut >>)]

ModelObjects ==
  {GoodObject, NoInstructionsObject, ShortOnlyObject, MessyObject,
   ZeroObject, LargeObject, DashStepObject}

\* The text of a model answer is a sequence of tokens: "{", "}", "[" and
\* "]" are those characters, "j" is the members of an object (JSON text
\* without braces) and "p" is prose.  obj is the object that the text
\* "{ j }" denotes.
\* Texts that are not one object with prose around it: the empty text,
\* prose only, braces in the wrong order, an unclosed object, two objects
\* with prose between them, an object with a nested object, and an array
\* of one object
OtherShapes ==
  { <<>>,
    <<"p">>,
    <<"}", "p", "{">>,
    <<"{", "j">>,
    <<"{", "j", "}", "p", "{", "j", "}">>,
    <<"{", "j", "{", "j", "}", "}">>,
    <<"[", "{", "j", "}", "]">> }

\* One object, bare or with prose before and after it
ObjectShapes == { <<"{", "j", "}">>, <<"p", "{", "j", "}", "p">> }

ModelTexts ==
  [raw : OtherShapes, obj : {GoodObject}] \cup
  [raw : ObjectShapes, obj : ModelObjects]

NoText == [raw |-> <<>>, obj |-> GoodObject]

\* A match that stops at the first "}" after the first "{"
jsonMatch_lazy(raw) ==
  LET opens == {i \in DOMAIN raw : raw[i] = "{"}
      first == CHOOSE i \in opens : \A j \in opens : i <= j
      closes == {i \in DOMAIN raw : raw[i] = "}" /\ first < i}
      last == CHOOSE i \in closes : \A j \in closes : i <= j
  IN IF opens = {} THEN Absent
     ELSE IF closes = {} THEN Absent
     ELSE Some(SubSeq(raw, first, last))

\* text.match(/\{[\s\S]*\}/): the span from the first "{" to the last "}"
jsonMatch(raw) ==
  LET opens == {i \in DOMAIN raw : raw[i] = "{"}
      first == CHOOSE i \in opens : \A j \in opens : i <= j
      closes == {i \in DOMAIN raw : raw[i] = "}" /\ first < i}
      last == CHOOSE i \in closes : \A j \in closes : j <= i
  IN IF opens = {} THEN Absent
     ELSE IF closes = {} THEN Absent
     ELSE Some(SubSeq(raw, first, last))

\* The tokens s[1..k] that are c
Count(s, c, k) == Cardinality({i \in 1..k : s[i] = c})

\* s is the text of one JSON object: it opens with "{", the matching "}"
\* is its last token, and a nested object follows members
IsObjectText(s) ==
  /\ Len(s) >= 2 /\ s[1] = "{"
  /\ \A i \in DOMAIN s : s[i] \in {"{", "}", "j"}
  /\ \A i \in 2..Len(s) : s[i] = "{" => s[i - 1] = "j"
  /\ \A i \in 2..Len(s) : s[i] = "}" => s[i - 1] \in {"j", "}"}
  /\ \A k \in 1..(Len(s) - 1) : Count(s, "{", k) > Count(s, "}", k)
  /\ Count(s, "{", Len(s)) = Count(s, "}", Len(s))

\* JSON.parse(s): the kind of value it returns, or "error" when it throws
JSONparse(s) ==
  IF IsObjectText(s) THEN "object"
  ELSE IF Len(s) >= 3 /\ s[1] = "[" /\ s[Len(s)] = "]"
          /\ IsObjectText(SubSeq(s, 2, Len(s) - 1))
    THEN "array"
  ELSE "error"

NoUpstreamError == [text |-> "", marks |-> {}]

NoOutcome == [kind |-> "none", err |-> NoUpstreamError, text |-> NoText]

\* What one call of the generation API does: it throws err or answers text
CallOutcomes ==
  [kind : {"throw"}, err : UpstreamErrors, text : {NoText}] \cup
  [kind : {"text"}, err : {NoUpstreamError}, text : ModelTexts]

\* ------------------------------------------------------------------------
\* Requests
\* ------------------------------------------------------------------------
ItemSamples == {<<>>, <<" ">>, <<"o","n">>, <<"O","n">>}

\* The form field "ingredients": absent, a JSON array text, another JSON
\* value, or text that is not JSON.  items are the elements of the array,
\* for other text its comma-separated pieces.
IngredientFields ==
  {[form |-> "absent", items |-> <<>>]} \cup
  [form : {"jsonArray"}, items : SeqsUpTo(ItemSamples, MaxItems)] \cup
  [form : {"text"}, items : SeqsUpTo(ItemSamples, MaxItems) \ {<<>>}] \cup
  {[form |-> "jsonOther", items |-> << <<"5">> >>]}

MAX_IMAGE_SIZE == 5 * 1024 * 1024

MAX_IMAGE_COUNT == 10

ALLOWED_MIME_TYPES == {"image/jpeg", "image/jpg", "image/png", "image/webp"}

\* An uploaded file: size in bytes, MIME type, and the marks of its name
ImageSamples ==
  { [size |-> 1024, mime |-> "image/png", name |-> {}],
    [size |-> MAX_IMAGE_SIZE + 1, mime |-> "image/jpeg", name |-> {}],
    [size |-> 1024, mime |-> "image/gif", name |-> {}],
    [size |-> 0, mime |-> "image/webp", name |-> {"timeout"}] }

\* The i-th file of an upload of files that every check accepts
AcceptedImage(i) ==
  [size |-> 1024 * i,
   mime |-> IF i % 2 = 1 THEN "image/png" ELSE "image/jpeg",
   name |-> {}]

\* Uploads of 1 to MaxAccepted accepted files, each file different
AcceptedUploads ==
  {[i \in 1..k |-> AcceptedImage(i)] : k \in 1..MaxAccepted}

PreferenceLengths == {Absent, Some(200), Some(201)}

\* A multipart request with one ingredient, no image and no preferences,
\* served by a configured backend
BaseRequest ==
  [multipart |-> TRUE,
   ingredients |-> [form |-> "jsonArray", items |-> << <<"o","n">> >>],
   preferences |-> Absent, images |-> <<>>, apiKey |-> TRUE]

\* The requests of the model: every ingredients field with every image
\* list, and the base request with each of the other fields varied
Requests ==
  [multipart : {TRUE}, ingredients : IngredientFields, preferences : {Absent},
   images : SeqsUpTo(ImageSamples, MaxImages), apiKey : {TRUE}] \cup
  {[BaseRequest EXCEPT !.preferences = p] : p \in PreferenceLengths} \cup
  {[BaseRequest EXCEPT !.images = u] : u \in AcceptedUploads} \cup
  {[BaseRequest EXCEPT !.apiKey = FALSE],
   [BaseRequest EXCEPT !.multipart = FALSE]}

\* ------------------------------------------------------------------------
\* Recipes and the NestJS enhancer (RecipeEnhancerService)
\* ------------------------------------------------------------------------
Recipe(title, description, ingredients, instructions, cookingTime, servings) ==
  [title |-> title, description |-> description, ingredients |-> ingredients,
   instructions |-> instructions, cookingTime |-> cookingTime,
   servings |-> servings]

Ellipsis == <<".", ".", ".">>

\* Array.prototype.filter(s => s.length > n)
LongerThan(seq, n) == SelectSeq(seq, LAMBDA x : Len(x) > n)

\* `${n}` for a non-negative integer below 10^9
NumStr(n) ==
  LET len == CHOOSE k \in 1..9 : n < 10 ^ k /\ (k = 1 \/ n >= 10 ^ (k - 1))
  IN [i \in 1..len |->
        CharOrder[Code("0") + ((n \div (10 ^ (len - i))) % 10)]]

TitleTrailing == {"<maru>", "<ten>", "<fwbang>", "<fwq>", ".", ",", "!", "?"}

SentenceEnd == {"<maru>", "<fwbang>", "<fwq>", ".", "!", "?"}

enhanceTitle(title) ==
  LET trimmed == Trim(title)
      limited == IF Len(trimmed) > 100
                   THEN Substring0(trimmed, 97) \o Ellipsis ELSE trimmed
      stripped == StripTrailing(limited, TitleTrailing)
  IN IF stripped # <<>> /\ Head(stripped) \in LowerLatin
       THEN <<UpperChar(Head(stripped))>> \o Tail(stripped)
       ELSE stripped

\* The terminal punctuation rule shared by descriptions and instructions
AddSentenceEnd(s) ==
  IF EndsWithAny(s, SentenceEnd) THEN s
  ELSE IF ContainsAny(s, CJKChars) THEN Append(s, "<maru>")
  ELSE IF ContainsAny(s, LowerLatin \cup UpperLatin) THEN Append(s, ".")
  ELSE s

enhanceDescription(description) ==
  LET trimmed == Trim(description)
      limited == IF Len(trimmed) > 500
                   THEN Substring0(trimmed, 497) \o Ellipsis ELSE trimmed
  IN IF limited # <<>> THEN AddSentenceEnd(limited) ELSE limited

seasoningKeywords ==
  << <<"<shio>">>,
     <<"<shi>", "<small-yo>", "<u>", "<yu>">>,
     <<"<shou>", "<abura>">>,
     <<"<aji>", "<so>">>,
     <<"<mi>", "<so-hira>">>,
     <<"<so-kata>", "<chouon>", "<su-kata>">>,
     <<"<suna>", "<tou>">>,
     <<"<mi>", "<ri>", "<n>">>,
     <<"<sake>">>,
     <<"<su>">>,
     <<"<ko>", "<shou-pepper>">>,
     <<"<ko-kata>", "<shi-kata>", "<small-yo-kata>", "<u-kata>">>,
     <<"<abura>">>,
     <<"<o-kata>", "<i-kata>", "<ru-kata>">>,
     <<"<ba-kata>", "<ta-kata>", "<chouon>">> >>

isSeasoning(ingredient) ==
  \E k \in DOMAIN seasoningKeywords :
     Includes(ToLower(ingredient), ToLower(seasoningKeywords[k]))

sortIngredients(ingredients) ==
  LET seasonings == SelectSeq(ingredients,
                      LAMBDA x : isSeasoning(x) \/ Len(x) < 10)
      mainIngredients == SelectSeq(ingredients,
                      LAMBDA x : ~(isSeasoning(x) \/ Len(x) < 10))
  IN SortStrings(mainIngredients) \o SortStrings(seasonings)

IngredientLeading == {"<nakaguro>", "-", "*"} \cup Whitespace

IngredientTrailing == {"<maru>", "<ten>"}

enhanceIngredient(ingredient) ==
  LET stripped == StripTrailing(
                    StripLeading(Trim(ingredient), IngredientLeading),
                    IngredientTrailing)
  IN IF Len(stripped) > 150
       THEN Substring0(stripped, 147) \o Ellipsis ELSE stripped

enhanceIngredients(ingredients) ==
  LET uniqueIngredients == Dedupe(TrimAll(ingredients))
      validIngredients == LongerThan(uniqueIngredients, 0)
  IN sortIngredients([i \in DOMAIN validIngredients |->
                        enhanceIngredient(validIngredients[i])])

InstructionLeading ==
  Digits \cup {".", ")", "-", "*", "<nakaguro>"} \cup Whitespace

enhanceInstruction(instruction, stepNumber) ==
  LET stripped == StripLeading(Trim(instruction), InstructionLeading)
      numbered == NumStr(stepNumber) \o <<".", " ">> \o stripped
      ended == AddSentenceEnd(numbered)
  IN IF Len(ended) > 300 THEN Substring0(ended, 297) \o Ellipsis ELSE ended

enhanceInstructions(instructions) ==
  LongerThan([i \in DOMAIN instructions |->
                enhanceInstruction(instructions[i], i)], 3)

\* A check that returns every cooking time as it is
validateCookingTime_unclamped(cookingTime) == cookingTime

validateCookingTime(cookingTime) ==
  IF ~IsPresent(cookingTime) THEN Absent
  ELSE IF Get(cookingTime) < 1 THEN Some(5)
  ELSE IF Get(cookingTime) > 480 THEN Some(480)
  ELSE cookingTime

validateServings(servings) ==
  IF ~IsPresent(servings) THEN Absent
  ELSE IF Get(servings) < 1 THEN Some(1)
  ELSE IF Get(servings) > 20 THEN Some(20)
  ELSE servings

enhanceRecipe(recipe) ==
  Recipe(enhanceTitle(recipe.title), enhanceDescription(recipe.description),
         enhanceIngredients(recipe.ingredients),
         enhanceInstructions(recipe.instructions),
         validateCookingTime(recipe.cookingTime),
         validateServings(recipe.servings))

\* The advisory quality check: its verdict and its issue list
validateRecipeQuality(recipe) ==
  LET issues ==
        (IF Len(recipe.title) < 3 THEN <<"title too short">> ELSE <<>>) \o
        (IF Len(recipe.ingredients) = 0
           THEN <<"ingredients empty">> ELSE <<>>) \o
        (IF Len(recipe.ingredients) < 2
           THEN <<"too few ingredients">> ELSE <<>>) \o
        (IF Len(recipe.instructions) = 0
           THEN <<"instructions empty">> ELSE <<>>) \o
        (IF Len(recipe.instructions) < 2
           THEN <<"too few instructions">> ELSE <<>>) \o
        (IF Len(recipe.description) < 10
           THEN <<"description too short">> ELSE <<>>)
  IN [isValid |-> Len(issues) = 0, issues |-> issues]

\* ------------------------------------------------------------------------
\* The Hono enhancer (routes/recipes.ts)
\* ------------------------------------------------------------------------
\* The recipe and the issue list of enhanceRecipeQuality
enhanceRecipeQuality(recipe) ==
  LET uniqueIngredients == Dedupe(recipe.ingredients)
      filteredInstructions ==
        SelectSeq(recipe.instructions, LAMBDA x : Len(Trim(x)) > 3)
      issues ==
        (IF Len(uniqueIngredients) # Len(recipe.ingredients)
           THEN <<"duplicate ingredients removed">> ELSE <<>>) \o
        (IF Len(filteredInstructions) # Len(recipe.instructions)
           THEN <<"invalid instructions removed">> ELSE <<>>)
  IN [recipe |-> [recipe EXCEPT !.ingredients = uniqueIngredients,
                                !.instructions = filteredInstructions],
      qualityInfo |-> [hasIssues |-> Len(issues) > 0, issues |-> issues]]

\* ------------------------------------------------------------------------
\* Responses
\* ------------------------------------------------------------------------
\* The JSON response: HTTP status, success flag, error code (error
\* responses), recipe and qualityInfo (success responses).
createErrorResponse(code, statusCode) ==
  [success |-> FALSE, status |-> statusCode, code |-> code,
   data |-> Absent, hasIssues |-> FALSE, issues |-> <<>>]

createSuccessResponse(data, qualityInfo) ==
  [success |-> TRUE, status |-> 200, code |-> NoCode,
   data |-> Some(data), hasIssues |-> qualityInfo.hasIssues,
   issues |-> qualityInfo.issues]

\* A service that turns a recipe with quality issues down
serviceResponse_rejecting(rawRecipe) ==
  IF ~validateRecipeQuality(rawRecipe).isValid
    THEN createErrorResponse("AI_RESPONSE_ERROR", 500)
    ELSE createSuccessResponse(
           enhanceRecipe(rawRecipe),
           [hasIssues |-> FALSE, issues |-> <<>>])

\* RecipesService.generateRecipe from rawRecipe on: the quality check, the
\* enhancement and the response
serviceResponse(rawRecipe) ==
  LET qualityCheck == validateRecipeQuality(rawRecipe)
      enhancedRecipe == enhanceRecipe(rawRecipe)
  IN createSuccessResponse(
       enhancedRecipe,
       [hasIssues |-> ~qualityCheck.isValid, issues |-> qualityCheck.issues])

\* ------------------------------------------------------------------------
\* Hono backend: request validation and the OpenAI provider
\* ------------------------------------------------------------------------
\* An image check that forgets the MIME type
validateImage_sizeOnly(file) == file.size <= MAX_IMAGE_SIZE

validateImage(file) ==
  file.size <= MAX_IMAGE_SIZE /\ file.mime \in ALLOWED_MIME_TYPES

validateImageCount(count) == count <= MAX_IMAGE_COUNT

\* z.array(z.string().min(1)).min(1) on the parsed ingredients field
ingredientsSchema(field) ==
  /\ field.form = "jsonArray"
  /\ Len(field.items) >= 1
  /\ \A i \in DOMAIN field.items : Len(field.items[i]) >= 1

\* z.string().max(200).optional()
preferencesSchema(preferences) ==
  IsPresent(preferences) => Get(preferences) <= 200

\* formData.get('ingredients') is a non-empty string
HasIngredientsField(field) ==
  field.form # "absent" /\ ~(field.form = "text" /\ field.items = << <<>> >>)

\* The part of the POST /generate handler before the provider call: the
\* response it returns early, or Absent when the provider is called.
HonoEarlyResponse(req) ==
  IF ~req.multipart
    THEN Some(createErrorResponse("INTERNAL_SERVER_ERROR", 500))
  ELSE IF ~HasIngredientsField(req.ingredients)
    THEN Some(createErrorResponse("INVALID_REQUEST", 400))
  ELSE IF req.ingredients.form = "text"
    THEN Some(createErrorResponse("INVALID_REQUEST", 400))
  ELSE IF \E i \in DOMAIN req.images : ~validateImage(req.images[i])
    THEN Some(createErrorResponse("INVALID_REQUEST", 400))
  ELSE IF ~validateImageCount(Len(req.images))
    THEN Some(createErrorResponse("INVALID_REQUEST", 400))
  ELSE IF ~(ingredientsSchema(req.ingredients)
            /\ preferencesSchema(req.preferences))
    THEN Some(createErrorResponse("INVALID_REQUEST", 400))
  ELSE IF ~req.apiKey
    THEN Some(createErrorResponse("INTERNAL_SERVER_ERROR", 500))
  ELSE Absent

\* recipeSchema.safeParse: does the object satisfy the zod schema
recipeSchema(obj) ==
  /\ IsPresent(obj.title) /\ Len(Get(obj.title)) >= 1
  /\ IsPresent(obj.description) /\ Len(Get(obj.description)) >= 1
  /\ IsPresent(obj.ingredients) /\ Len(Get(obj.ingredients)) >= 1
  /\ \A i \in DOMAIN Get(obj.ingredients) : Len(Get(obj.ingredients)[i]) >= 1
  /\ IsPresent(obj.instructions) /\ Len(Get(obj.instructions)) >= 1
  /\ \A i \in DOMAIN Get(obj.instructions) : Len(Get(obj.instructions)[i]) >= 1
  /\ IsPresent(obj.cookingTime) => Get(obj.cookingTime) > 0
  /\ IsPresent(obj.servings) => Get(obj.servings) > 0

ObjectAsRecipe(obj) ==
  Recipe(Get(obj.title), Get(obj.description), Get(obj.ingredients),
         Get(obj.instructions), obj.cookingTime, obj.servings)

NoRecipe == Recipe(<<>>, <<>>, <<>>, <<>>, Absent, Absent)

NoError == PlainError("", {}, 0)

Returned(recipe) == [ok |-> TRUE, recipe |-> recipe, err |-> NoError]

Thrown(err) == [ok |-> FALSE, recipe |-> NoRecipe, err |-> err]

\* The catch block of OpenAIProvider.generateRecipe: the error it throws
\* for a caught error
openaiCatch(error) ==
  IF "rate limit" \in error.marks
    THEN PlainError("RATE_LIMIT_EXCEEDED", {}, error.origin)
  ELSE IF "timeout" \in error.marks \/ "TIMEOUT" \in error.marks
    THEN PlainError("REQUEST_TIMEOUT", {"TIMEOUT"}, error.origin)
  ELSE IF {"connection", "network", "unavailable"} \cap error.marks # {}
    THEN PlainError("AI_SERVICE_UNAVAILABLE", {}, error.origin)
  ELSE IF error.cls = "ZodError"
    THEN PlainError("AI_RESPONSE_ERROR", {}, error.origin)
  ELSE error

\* Array.prototype.slice(0, n)
Slice0(seq, n) == SubSeq(seq, 1, IF Len(seq) < n THEN Len(seq) ELSE n)

\* imagesToBase64: the data and the MIME type of the first three files; a
\* file's data is modelled by its size
imagesToBase64(files) ==
  LET limitedFiles == Slice0(files, 3)
  IN [i \in DOMAIN limitedFiles |->
        [data |-> limitedFiles[i].size, mimeType |-> limitedFiles[i].mime]]

\* The image parts of the chat message OpenAIProvider.generateRecipe sends
openaiImageParts(images) == Slice0(images, 3)

\* The parsing of the completion's content: JSON.parse of the whole
\* content and, when that throws, of the span jsonMatch finds; "nomatch"
\* when there is no span
openaiParsed(raw) ==
  IF JSONparse(raw) # "error" THEN JSONparse(raw)
  ELSE IF IsPresent(jsonMatch(raw)) THEN JSONparse(Get(jsonMatch(raw)))
  ELSE "nomatch"

\* OpenAIProvider.generateRecipe from the completion of the API call on
openaiGenerateRecipe(outcome) ==
  IF outcome.kind = "throw"
    THEN Thrown(openaiCatch(PlainError(outcome.err.text, outcome.err.marks, 1)))
  ELSE IF outcome.text.raw = <<>>
    THEN Thrown(openaiCatch(PlainError("empty AI response", {}, 1)))
  ELSE IF openaiParsed(outcome.text.raw) = "nomatch"
    THEN Thrown(openaiCatch(PlainError("JSON parse failed", {}, 1)))
  ELSE IF openaiParsed(outcome.text.raw) = "error"
    THEN Thrown(openaiCatch(Err("SyntaxError", NoCode, 0,
                                <<"Unexpected token">>, {}, 1)))
  ELSE IF openaiParsed(outcome.text.raw) = "array"
          \/ ~recipeSchema(outcome.text.obj)
    THEN Thrown(openaiCatch(Err("ZodError", NoCode, 0, <<"zod issues">>, {}, 1)))
  ELSE Returned(ObjectAsRecipe(outcome.text.obj))

\* The catch (aiError) block of the handler: code and status by message
HonoAiErrorResponse(aiError) ==
  IF aiError.text = <<"RATE_LIMIT_EXCEEDED">>
    THEN createErrorResponse("RATE_LIMIT_EXCEEDED", 429)
  ELSE IF aiError.text = <<"REQUEST_TIMEOUT">>
    THEN createErrorResponse("REQUEST_TIMEOUT", 504)
  ELSE IF aiError.text = <<"AI_SERVICE_UNAVAILABLE">>
    THEN createErrorResponse("AI_SERVICE_UNAVAILABLE", 502)
  ELSE createErrorResponse("AI_RESPONSE_ERROR", 500)

\* ------------------------------------------------------------------------
\* NestJS backend: interceptor, pipes, validators, error mapping
\* ------------------------------------------------------------------------
SumSizes(images) ==
  LET sum[i \in 0..Len(images)] ==
        IF i = 0 THEN 0 ELSE sum[i - 1] + images[i].size
  IN sum[Len(images)]

NestOk == [ok |-> TRUE, err |-> NoError]

NestFail(err) == [ok |-> FALSE, err |-> err]

\* FilesInterceptor('images', 10, multerConfig): the file filter and the
\* limits; multer's errors reach the filter as HTTP exceptions.
multerConfig(req) ==
  LET Rejected(file) == \/ file.mime \notin ALLOWED_MIME_TYPES
                        \/ file.size > 5 * 1024 * 1024
      bad == {i \in DOMAIN req.images : Rejected(req.images[i])}
      first == CHOOSE i \in bad : \A j \in bad : i <= j
  IN IF bad # {} /\ first <= 10
       THEN IF req.images[first].mime \notin ALLOWED_MIME_TYPES
              THEN NestFail(HttpError(400, "unsupported file type"))
              ELSE NestFail(HttpError(413, "File too large"))
     ELSE IF Len(req.images) > 10
       THEN NestFail(HttpError(400, "Too many files"))
     ELSE NestOk

\* ParseIngredientsPipe.parseIngredients up to the uniqueness step
parseIngredients(field) ==
  LET parsedIngredients ==
        IF field.form = "jsonArray" THEN TrimAll(field.items)
        ELSE LongerThan(TrimAll(field.items), 0)
  IN Dedupe(LongerThan(parsedIngredients, 0))

\* The @Transform of GenerateRecipeDto.ingredients
dtoTransform(items) == LongerThan(TrimAll(items), 0)

\* ParseIngredientsPipe followed by the ValidationPipe on GenerateRecipeDto:
\* the ingredients of the DTO, or the BadRequestException raised
NestPipesResult(req) ==
  LET field == req.ingredients
      unique == parseIngredients(field)
      value == IF HasIngredientsField(field) THEN unique ELSE <<>>
      dto == dtoTransform(value)
  IN IF ~req.multipart
       THEN [ok |-> FALSE, err |-> HttpError(400, "Invalid request body"),
             ingredients |-> <<>>]
     ELSE IF HasIngredientsField(field) /\ (Len(unique) = 0 \/ Len(unique) > 50)
       THEN [ok |-> FALSE, err |-> HttpError(400, "ingredient count"),
             ingredients |-> <<>>]
     ELSE IF Len(dto) = 0 \/ Len(dto) > 50
       THEN [ok |-> FALSE, err |-> HttpError(400, "Bad Request Exception"),
             ingredients |-> <<>>]
     ELSE [ok |-> TRUE, err |-> NoError, ingredients |-> dto]

\* RecipesController.validateUploadedImages
validateUploadedImages(images) ==
  IF Len(images) = 0 THEN NestOk
  ELSE IF SumSizes(images) > 20 * 1024 * 1024
    THEN NestFail(PlainError("Total image size too large", {}, 0))
  ELSE IF \E i \in DOMAIN images : images[i].size = 0
    THEN LET i == CHOOSE j \in DOMAIN images :
                    /\ images[j].size = 0
                    /\ \A k \in 1..(j - 1) : images[k].size # 0
         IN NestFail(PlainError("Invalid image file: name", images[i].name, 0))
  ELSE NestOk

\* RecipeValidator.validateIngredients
validateIngredients(ingredients) ==
  IF Len(ingredients) = 0
    THEN NestFail(PlainError("At least one ingredient is required",
                             {"required"}, 0))
  ELSE IF Len(LongerThan(TrimAll(ingredients), 0)) = 0
    THEN NestFail(PlainError("At least one valid ingredient is required",
                             {"required"}, 0))
  ELSE IF Len(LongerThan(TrimAll(ingredients), 0)) > 50
    THEN NestFail(PlainError("Too many ingredients (maximum 50)", {}, 0))
  ELSE NestOk

\* RecipeValidator.validateImages
validateImages(images) ==
  IF Len(images) = 0 THEN NestOk
  ELSE IF Len(images) > 10
    THEN NestFail(PlainError("Too many images (maximum 10)", {}, 0))
  ELSE IF \E i \in DOMAIN images : images[i].size > 5 * 1024 * 1024
    THEN NestFail(PlainError("Image file too large (maximum 5MB)", {}, 0))
  ELSE NestOk

\* AiService.handleAIError
handleAIError(error) ==
  IF error.code = "PARSING_ERROR" \/ error.code = "VALIDATION_ERROR"
    THEN error
  ELSE IF {"validation failed", "must be", "required"} \cap error.marks # {}
    THEN Err("Error", "VALIDATION_ERROR", 0, error.text, error.marks,
             error.origin)
  ELSE Err("Error", "AI_API_ERROR", 0, <<"AI API Error: ">> \o error.text,
           error.marks, error.origin)

\* A validator whose DTO lacks the constraints on instructions
validate_noInstructionCheck(obj) ==
  LET title == IF IsPresent(obj.title) THEN Trim(Get(obj.title)) ELSE <<>>
      description == IF IsPresent(obj.description)
                       THEN Trim(Get(obj.description)) ELSE <<>>
      ingredients == IF IsPresent(obj.ingredients)
                       THEN LongerThan(TrimAll(Get(obj.ingredients)), 0)
                       ELSE <<>>
      instructions == IF IsPresent(obj.instructions)
                        THEN LongerThan(TrimAll(Get(obj.instructions)), 0)
                        ELSE <<>>
      cookingTime == IF IsPresent(obj.cookingTime) /\ Get(obj.cookingTime) # 0
                       THEN obj.cookingTime ELSE Absent
      servings == IF IsPresent(obj.servings) /\ Get(obj.servings) # 0
                    THEN obj.servings ELSE Absent
  IN [recipe |-> Recipe(title, description, ingredients, instructions,
                        cookingTime, servings),
      errors |->
        (IF title = <<>> THEN <<"title">> ELSE <<>>) \o
        (IF description = <<>> THEN <<"description">> ELSE <<>>) \o
        (IF ingredients = <<>> THEN <<"ingredients">> ELSE <<>>) \o
        (IF IsPresent(cookingTime)
            /\ (Get(cookingTime) < 1 \/ Get(cookingTime) > 1440)
           THEN <<"cookingTime">> ELSE <<>>) \o
        (IF IsPresent(servings) /\ (Get(servings) < 1 \/ Get(servings) > 50)
           THEN <<"servings">> ELSE <<>>)]

\* RecipeValidator.validate: the preprocessed recipe and the properties
\* that violate a constraint of RecipeDto
validate(obj) ==
  LET title == IF IsPresent(obj.title) THEN Trim(Get(obj.title)) ELSE <<>>
      description == IF IsPresent(obj.description)
                       THEN Trim(Get(obj.description)) ELSE <<>>
      ingredients == IF IsPresent(obj.ingredients)
                       THEN LongerThan(TrimAll(Get(obj.ingredients)), 0)
                       ELSE <<>>
      instructions == IF IsPresent(obj.instructions)
                        THEN LongerThan(TrimAll(Get(obj.instructions)), 0)
                        ELSE <<>>
      cookingTime == IF IsPresent(obj.cookingTime) /\ Get(obj.cookingTime) # 0
                       THEN obj.cookingTime ELSE Absent
      servings == IF IsPresent(obj.servings) /\ Get(obj.servings) # 0
                    THEN obj.servings ELSE Absent
  IN [recipe |-> Recipe(title, description, ingredients, instructions,
                        cookingTime, servings),
      errors |->
        (IF title = <<>> THEN <<"title">> ELSE <<>>) \o
        (IF description = <<>> THEN <<"description">> ELSE <<>>) \o
        (IF ingredients = <<>> THEN <<"ingredients">> ELSE <<>>) \o
        (IF instructions = <<>> THEN <<"instructions">> ELSE <<>>) \o
        (IF IsPresent(cookingTime)
            /\ (Get(cookingTime) < 1 \/ Get(cookingTime) > 1440)
           THEN <<"cookingTime">> ELSE <<>>) \o
        (IF IsPresent(servings) /\ (Get(servings) < 1 \/ Get(servings) > 50)
           THEN <<"servings">> ELSE <<>>)]

\* The inline_data parts AiService.buildPromptParts puts after the prompt
buildPromptParts(images) ==
  [i \in DOMAIN images |-> [data |-> images[i].size, mimeType |-> "image/jpeg"]]

\* The error parseAIResponse throws for a failure inside its try block
parseError(inner, n) ==
  Err("Error", "PARSING_ERROR", 0,
      <<"Failed to parse AI response: ">> \o inner.text, inner.marks, n)

\* A parser that returns the parsed object instead of the validated recipe
parseAIResponse_unprocessed(text, n) ==
  IF ~IsPresent(jsonMatch(text.raw))
    THEN Thrown(parseError(
           PlainError("No valid JSON found in AI response", {}, n),
           n))
  ELSE IF JSONparse(Get(jsonMatch(text.raw))) = "error"
    THEN Thrown(parseError(
           Err("SyntaxError", NoCode, 0, <<"Unexpected token">>, {}, n),
           n))
  ELSE IF validate(text.obj).errors # <<>>
    THEN Thrown(parseError(
           PlainError("Recipe validation failed", {"validation failed"},
                      n),
           n))
  ELSE Returned(ObjectAsRecipe(text.obj))

\* AiService.parseAIResponse
parseAIResponse(text, n) ==
  IF ~IsPresent(jsonMatch(text.raw))
    THEN Thrown(parseError(
           PlainError("No valid JSON found in AI response", {}, n),
           n))
  ELSE IF JSONparse(Get(jsonMatch(text.raw))) = "error"
    THEN Thrown(parseError(
           Err("SyntaxError", NoCode, 0, <<"Unexpected token">>, {}, n),
           n))
  ELSE IF validate(text.obj).errors # <<>>
    THEN Thrown(parseError(
           PlainError("Recipe validation failed", {"validation failed"},
                      n),
           n))
  ELSE Returned(validate(text.obj).recipe)

\* The body of one attempt (number n) of generateRecipeWithRetry, from the
\* completion of model.generateContent on
attemptResult(outcome, n) ==
  IF outcome.kind = "throw"
    THEN Thrown(PlainError(outcome.err.text, outcome.err.marks, n))
    ELSE parseAIResponse(outcome.text, n)

\* AiExceptionFilter.isAIGenerationError
isAIGenerationError(exception) ==
  exception.code \in {"AI_API_ERROR", "PARSING_ERROR", "VALIDATION_ERROR"}

\* AiExceptionFilter.getErrorCodeFromStatus
getErrorCodeFromStatus(status) ==
  CASE status = 400 -> "BAD_REQUEST"
    [] status = 401 -> "UNAUTHORIZED"
    [] status = 403 -> "FORBIDDEN"
    [] status = 404 -> "NOT_FOUND"
    [] status = 408 -> "REQUEST_TIMEOUT"
    [] status = 429 -> "TOO_MANY_REQUESTS"
    [] status = 500 -> "INTERNAL_SERVER_ERROR"
    [] status = 502 -> "BAD_GATEWAY"
    [] status = 503 -> "SERVICE_UNAVAILABLE"
    [] OTHER -> "HTTP_ERROR"

\* AiExceptionFilter.buildErrorResponse, as the response catch() sends
buildErrorResponse(exception) ==
  IF isAIGenerationError(exception)
    THEN CASE exception.code = "VALIDATION_ERROR" ->
                createErrorResponse("INVALID_REQUEST", 400)
           [] exception.code = "PARSING_ERROR" ->
                createErrorResponse("AI_RESPONSE_ERROR", 500)
           [] exception.code = "AI_API_ERROR" ->
                createErrorResponse("AI_SERVICE_UNAVAILABLE", 502)
           [] OTHER -> createErrorResponse("AI_SERVICE_ERROR", 500)
  ELSE IF exception.cls = "HttpException"
    THEN createErrorResponse(getErrorCodeFromStatus(exception.status),
                             exception.status)
  ELSE IF "API key" \in exception.marks
    THEN createErrorResponse("CONFIGURATION_ERROR", 500)
  ELSE IF "timeout" \in exception.marks \/ "TIMEOUT" \in exception.marks
    THEN createErrorResponse("REQUEST_TIMEOUT", 408)
  ELSE IF "rate limit" \in exception.marks \/ "quota" \in exception.marks
    THEN createErrorResponse("RATE_LIMIT_EXCEEDED", 429)
  ELSE createErrorResponse("INTERNAL_SERVER_ERROR", 500)

\* ------------------------------------------------------------------------
\* The handling of one request
\* ------------------------------------------------------------------------
VARIABLES
  backend,     \* "hono" or "nest": the implementation that serves the request
  request,     \* the request received
  pc,          \* the position of the handler
  attempt,     \* the loop variable of generateRecipeWithRetry
  calls,       \* the number of invocations of the external generation API
  delays,      \* the waits of this.delay, in milliseconds, in order
  lastOutcome, \* what the latest completed call of the API did
  lastError,   \* the error raised by the latest failed attempt
  loopThrown,  \* the error thrown by the retry loop / the provider
  thrown,      \* the exception on its way to the exception filter
  returned,    \* the recipe returned by the model invoker
  responses,   \* the responses sent for the request, in order
  normalized,  \* the ingredient list the request validation produced
  forwarded,   \* the image parts of the latest call of the generation API
  frames,      \* the activations of AiService.generateRecipe in flight
  validator,   \* frontend: the pattern objects of ingredientValidation.ts
  mutation,    \* frontend: the mutation of useRecipeGeneration
  ingredientsHook, \* frontend: the state of useIngredients and its callers
  imageUpload, \* frontend: the state of useImageUpload and its callers
  page         \* frontend: the state of the Home page

\* The state of the handling of one request
serverVars == <<backend, request, pc, attempt, calls, delays, lastOutcome,
                lastError, loopThrown, thrown, returned, responses,
                normalized, forwarded>>

\* The state of the components that are modelled on their own
componentVars == <<frames, validator, mutation, ingredientsHook, imageUpload,
                   page>>

vars == <<serverVars, componentVars>>

\* A component that is not part of the run
Unmounted == <<>>

\* A retry bound that is one too large
maxRetries_four == 3 + 1

\* generateRecipeWithRetry(request, requestId, 3)
maxRetries == 3

\* A backoff that counts the attempts from zero
backoffDelay_zeroBased(n) == (2 ^ (n - 1)) * 1000

\* Math.pow(2, attempt) * 1000
backoffDelay(n) == (2 ^ n) * 1000

\* if (attempt === maxRetries)
isLastAttempt(n) == n = maxRetries

\* A loop that reports the exhaustion instead of the last error
exhausted_wrapped(error) == PlainError("All retry attempts failed", {}, 0)

\* The error generateRecipeWithRetry throws when the last attempt failed
exhausted(error) == error

\* A filter declared for HTTP exceptions only
filterCatches_httpOnly(exception) == exception.cls = "HttpException"

\* @Catch() without arguments: the filter catches every exception
filterCatches(exception) == TRUE

Init ==
  /\ backend \in {"hono", "nest"}
  /\ request \in Requests
  /\ pc = "received"
  /\ attempt = 0
  /\ calls = 0
  /\ delays = <<>>
  /\ lastOutcome = NoOutcome
  /\ lastError = Absent
  /\ loopThrown = Absent
  /\ thrown = Absent
  /\ returned = Absent
  /\ responses = <<>>
  /\ normalized = Absent
  /\ forwarded = <<>>
  /\ frames = Unmounted
  /\ validator = Unmounted
  /\ mutation = Unmounted
  /\ ingredientsHook = Unmounted
  /\ imageUpload = Unmounted
  /\ page = Unmounted

\* The function f in explicit form: every value is computed once
Explicit(f) == f @@ <<>>

\* The early response of the Hono handler, for each request
honoEarly == Explicit([req \in Requests |-> HonoEarlyResponse(req)])

\* What the Hono handler does with each outcome of the completion call:
\* the provider's result and, for a recipe, the 200 response built from the
\* enhanced recipe
honoCompletions ==
  Explicit([outcome \in CallOutcomes |->
     LET r == openaiGenerateRecipe(outcome)
         q == enhanceRecipeQuality(r.recipe)
     IN [r |-> r,
         response |-> IF r.ok
                        THEN createSuccessResponse(q.recipe, q.qualityInfo)
                        ELSE HonoAiErrorResponse(r.err)]])

\* What one attempt of the NestJS retry loop does with each outcome of
\* generateContent: the attempt's result and, for a recipe, the 200
\* response RecipesService and the controller build from it
nestAttempts ==
  Explicit([outcome \in CallOutcomes |->
     Explicit([n \in 1..maxRetries |->
        LET r == attemptResult(outcome, n)
        IN [r |-> r,
            response |-> IF r.ok
                           THEN Some(serviceResponse(r.recipe))
                           ELSE Absent]])])

\* The outcome of the FilesInterceptor, for each request
nestIntercepted == Explicit([req \in Requests |-> multerConfig(req)])

\* The outcome of the pipes, for each request
nestPiped == Explicit([req \in Requests |-> NestPipesResult(req)])

\* RecipesController.generateRecipe up to the retry loop: the controller's
\* check of the uploaded files, then AiService.generateRecipe's validation
\* of its input, whose errors go through handleAIError
controllerChecks(req) ==
  LET ingredients == NestPipesResult(req).ingredients
      u == validateUploadedImages(req.images)
      v == validateIngredients(ingredients)
      w == validateImages(req.images)
  IN IF ~u.ok THEN u
     ELSE IF ~v.ok THEN NestFail(handleAIError(v.err))
     ELSE IF ~w.ok THEN NestFail(handleAIError(w.err))
     ELSE NestOk

nestControlled == Explicit([req \in Requests |-> controllerChecks(req)])

\* The image parts of the Hono handler's provider call, for each request
honoParts ==
  Explicit([req \in Requests |-> openaiImageParts(imagesToBase64(req.images))])

\* The image parts of each attempt's generateContent call, for each request
nestParts == Explicit([req \in Requests |-> buildPromptParts(req.images)])

\* Hono: POST /generate up to the call of aiProvider.generateRecipe
HonoHandle ==
  /\ UNCHANGED componentVars
  /\ pc = "received" /\ backend = "hono"
  /\ LET early == honoEarly[request]
     IN IF IsPresent(early)
          THEN /\ responses' = Append(responses, Get(early))
               /\ pc' = "done"
               /\ UNCHANGED <<attempt, calls, normalized, forwarded>>
          ELSE /\ pc' = "hono_calling"
               /\ attempt' = 1
               /\ calls' = calls + 1
               /\ normalized' = Some(request.ingredients.items)
               /\ forwarded' = honoParts[request]
               /\ UNCHANGED responses
  /\ UNCHANGED <<backend, request, delays, lastOutcome, lastError,
                 loopThrown, thrown, returned>>

\* Hono: the completion call answers or throws; the provider parses and
\* validates, the handler maps the error or enhances and responds
HonoComplete ==
  /\ UNCHANGED componentVars
  /\ pc = "hono_calling"
  /\ \E outcome \in CallOutcomes :
       LET r == honoCompletions[outcome].r
       IN /\ lastOutcome' = outcome
          /\ responses' = Append(responses, honoCompletions[outcome].response)
          /\ IF r.ok
               THEN /\ returned' = Some(r.recipe)
                    /\ UNCHANGED <<lastError, loopThrown>>
               ELSE /\ lastError' = Some(r.err)
                    /\ loopThrown' = Some(r.err)
                    /\ UNCHANGED returned
  /\ pc' = "done"
  /\ UNCHANGED <<backend, request, attempt, calls, delays, thrown,
                 normalized, forwarded>>

\* Nest: the FilesInterceptor
NestIntercept ==
  /\ UNCHANGED componentVars
  /\ pc = "received" /\ backend = "nest"
  /\ LET m == nestIntercepted[request]
     IN IF m.ok
          THEN pc' = "nest_pipes" /\ UNCHANGED thrown
          ELSE pc' = "nest_filter" /\ thrown' = Some(m.err)
  /\ UNCHANGED <<backend, request, attempt, calls, delays, lastOutcome,
                 lastError, loopThrown, returned, responses, normalized,
                 forwarded>>

\* Nest: ParseIngredientsPipe and ValidationPipe
NestPipes ==
  /\ UNCHANGED componentVars
  /\ pc = "nest_pipes"
  /\ LET p == nestPiped[request]
     IN IF p.ok
          THEN /\ pc' = "nest_controller"
               /\ normalized' = Some(p.ingredients)
               /\ UNCHANGED thrown
          ELSE /\ pc' = "nest_filter"
               /\ thrown' = Some(p.err)
               /\ UNCHANGED normalized
  /\ UNCHANGED <<backend, request, attempt, calls, delays, lastOutcome,
                 lastError, loopThrown, returned, responses, forwarded>>

\* Nest: RecipesController.generateRecipe, RecipesService.generateRecipe and
\* AiService.generateRecipe up to the first attempt of the retry loop
NestController ==
  /\ UNCHANGED componentVars
  /\ pc = "nest_controller"
  /\ LET c == nestControlled[request]
     IN IF c.ok
          THEN pc' = "nest_attempt" /\ attempt' = 1 /\ UNCHANGED thrown
          ELSE pc' = "nest_filter" /\ thrown' = Some(c.err)
                 /\ UNCHANGED attempt
  /\ UNCHANGED <<backend, request, calls, delays, lastOutcome, lastError,
                 loopThrown, returned, responses, normalized, forwarded>>

\* Nest: one attempt calls model.generateContent
NestAttemptStart ==
  /\ UNCHANGED componentVars
  /\ pc = "nest_attempt"
  /\ attempt <= maxRetries
  /\ calls' = calls + 1
  /\ forwarded' = nestParts[request]
  /\ pc' = "nest_calling"
  /\ UNCHANGED <<backend, request, attempt, delays, lastOutcome, lastError,
                 loopThrown, thrown, returned, responses, normalized>>

\* Nest: the call answers or throws; on success the recipe goes back through
\* the service (quality check, enhancement) into the 200 response, on
\* failure the loop sleeps or gives up
NestAttemptEnd ==
  /\ UNCHANGED componentVars
  /\ pc = "nest_calling"
  /\ \E outcome \in CallOutcomes :
       LET r == nestAttempts[outcome][attempt].r
       IN /\ lastOutcome' = outcome
          /\ IF r.ok
               THEN /\ returned' = Some(r.recipe)
                    /\ responses' =
                         Append(responses,
                                Get(nestAttempts[outcome][attempt].response))
                    /\ pc' = "done"
                    /\ UNCHANGED <<delays, lastError, loopThrown, thrown>>
             ELSE IF isLastAttempt(attempt)
               THEN /\ lastError' = Some(r.err)
                    /\ loopThrown' = Some(exhausted(r.err))
                    /\ thrown' = Some(handleAIError(exhausted(r.err)))
                    /\ pc' = "nest_filter"
                    /\ UNCHANGED <<delays, returned, responses>>
             ELSE /\ lastError' = Some(r.err)
                  /\ delays' = Append(delays, backoffDelay(attempt))
                  /\ pc' = "nest_sleeping"
                  /\ UNCHANGED <<loopThrown, thrown, returned, responses>>
  /\ UNCHANGED <<backend, request, attempt, calls, normalized, forwarded>>

\* Nest: the backoff timer fires and the loop goes to its next iteration,
\* or leaves the loop and throws when the attempts are used up
NestWake ==
  /\ UNCHANGED componentVars
  /\ pc = "nest_sleeping"
  /\ attempt' = attempt + 1
  /\ IF attempt + 1 <= maxRetries
       THEN pc' = "nest_attempt" /\ UNCHANGED <<loopThrown, thrown>>
       ELSE LET e == PlainError("All retry attempts failed", {}, 0)
            IN /\ loopThrown' = Some(e)
               /\ thrown' = Some(handleAIError(e))
               /\ pc' = "nest_filter"
  /\ UNCHANGED <<backend, request, calls, delays, lastOutcome, lastError,
                 returned, responses, normalized, forwarded>>

\* Nest: AiExceptionFilter.catch
NestFilter ==
  /\ UNCHANGED componentVars
  /\ pc = "nest_filter"
  /\ IF filterCatches(Get(thrown))
       THEN /\ responses' = Append(responses, buildErrorResponse(Get(thrown)))
            /\ pc' = "done"
       ELSE /\ pc' = "uncaught"
            /\ UNCHANGED responses
  /\ UNCHANGED <<backend, request, attempt, calls, delays, lastOutcome,
                 lastError, loopThrown, thrown, returned, normalized,
                 forwarded>>

Next ==
  \/ HonoHandle
  \/ HonoComplete
  \/ NestIntercept
  \/ NestPipes
  \/ NestController
  \/ NestAttemptStart
  \/ NestAttemptEnd
  \/ NestWake
  \/ NestFilter

Spec == Init /\ [][Next]_vars

\* The runtime runs every enabled continuation: a pending call returns or
\* throws, a timer fires, a thrown exception reaches the filter
FairSpec == Spec /\ WF_vars(Next)

\* ------------------------------------------------------------------------
\* The enhancer on its own: RecipesService hands it a recipe and answers
\* with what it returns
\* ------------------------------------------------------------------------
CookingTimeSamples == {-1, 0, 1, 3, 15, 480, 481, 1000}

ServingsSamples == {-1, 0, 1, 2, 20, 21, 100}

\* Values of the type Recipe: the numbers are optional and of any size
EnhancerInputs ==
  { Recipe(StirFry, Tasty, ing, <<OneCut, Ok>>, ct, sv) :
      ing \in { <<Onion>>, <<TofuUpper, TofuLower, TofuBullet>> },
      ct \in {Absent} \cup {Some(n) : n \in CookingTimeSamples},
      sv \in {Absent} \cup {Some(n) : n \in ServingsSamples} }

EnhancerInit ==
  /\ backend = "nest"
  /\ request = BaseRequest
  /\ pc = "nest_enhance"
  /\ attempt = 1
  /\ calls = 1
  /\ delays = <<>>
  /\ lastOutcome = NoOutcome
  /\ lastError = Absent
  /\ loopThrown = Absent
  /\ thrown = Absent
  /\ returned \in {Some(r) : r \in EnhancerInputs}
  /\ responses = <<>>
  /\ normalized = Some(request.ingredients.items)
  /\ forwarded = <<>>
  /\ frames = Unmounted
  /\ validator = Unmounted
  /\ mutation = Unmounted
  /\ ingredientsHook = Unmounted
  /\ imageUpload = Unmounted
  /\ page = Unmounted

\* RecipesService.generateRecipe from the recipe on: the quality check, the
\* enhancement, and the success response
EnhancerRespond ==
  /\ UNCHANGED componentVars
  /\ pc = "nest_enhance"
  /\ responses' = Append(responses, serviceResponse(Get(returned)))
  /\ pc' = "done"
  /\ UNCHANGED <<backend, request, attempt, calls, delays, lastOutcome,
                 lastError, loopThrown, thrown, returned, normalized,
                 forwarded>>

EnhancerNext == EnhancerRespond

EnhancerSpec == EnhancerInit /\ [][EnhancerNext]_vars

\* No request is being handled by the single-request machine
ServerIdle ==
  /\ backend = "nest"
  /\ request = BaseRequest
  /\ pc = "idle"
  /\ attempt = 0
  /\ calls = 0
  /\ delays = <<>>
  /\ lastOutcome = NoOutcome
  /\ lastError = Absent
  /\ loopThrown = Absent
  /\ thrown = Absent
  /\ returned = Absent
  /\ responses = <<>>
  /\ normalized = Absent
  /\ forwarded = <<>>

TypeOK ==
  /\ backend \in {"hono", "nest"}
  /\ pc \in {"received", "hono_calling", "nest_pipes", "nest_controller",
             "nest_attempt", "nest_calling", "nest_sleeping", "nest_filter",
             "uncaught", "done"}
  /\ attempt \in Nat
  /\ calls \in Nat
  /\ delays \in Seq(Nat)
  /\ lastOutcome \in CallOutcomes \cup {NoOutcome}
  /\ IsPresent(normalized) => Get(normalized) \in Seq(Seq(STRING))
  /\ Len(forwarded) <= MAX_IMAGE_COUNT

\* ------------------------------------------------------------------------
\* Properties
\* ------------------------------------------------------------------------
ErrorResponses == {responses[i] : i \in {j \in DOMAIN responses : ~responses[j].success}}

\* The model was called and the request ended without a recipe
FailedAtModel == pc = "done" /\ calls >= 1 /\ ~IsPresent(returned)

\* The latest model answer holds a span from its first "{" to its last "}"
\* that is the text of a JSON object
AnsweredObject ==
  /\ lastOutcome.kind = "text"
  /\ \E i, j \in DOMAIN lastOutcome.text.raw :
        /\ i < j
        /\ lastOutcome.text.raw[i] = "{" /\ lastOutcome.text.raw[j] = "}"
        /\ \A k \in 1..(i - 1) : lastOutcome.text.raw[k] # "{"
        /\ \A k \in (j + 1)..Len(lastOutcome.text.raw) :
              lastOutcome.text.raw[k] # "}"
        /\ IsObjectText(SubSeq(lastOutcome.text.raw, i, j))

C2_ThirdAttemptSucceeds ==
  (backend = "nest" /\ pc = "done" /\ attempt = 3 /\ IsPresent(returned)) =>
    /\ calls = 3
    /\ IsPresent(lastError) /\ Get(lastError).origin = 2
    /\ AnsweredObject
    /\ returned = Some(validate(lastOutcome.text.obj).recipe)
    /\ ~IsPresent(loopThrown)
    /\ Len(delays) = 2
    /\ Len(responses) = 1 /\ responses[1].success

C2_Witness ==
  /\ backend = "nest" /\ pc = "done" /\ attempt = 3 /\ IsPresent(returned)
  /\ Len(delays) = 2 /\ lastOutcome.text.obj = ShortOnlyObject

\* C3 as stated: the waits are 1 second after the first failed attempt and
\* 2 seconds after the second.
C3_OneThenTwoSeconds == delays \in {<<>>, <<1000>>, <<1000, 2000>>}

\* C3, amended: the waits are 2 seconds after the first failed attempt and
\* 4 seconds after the second, and there is no wait after the third.
C3_TwoThenFourSeconds ==
  /\ delays \in {<<>>, <<2000>>, <<2000, 4000>>}
  /\ pc \in {"nest_attempt", "nest_calling"} => Len(delays) = attempt - 1
  /\ pc = "nest_sleeping" => Len(delays) = attempt
  /\ (backend = "nest" /\ pc \in {"nest_filter", "done"} /\ calls = 3
        /\ ~IsPresent(returned)) => delays = <<2000, 4000>>

C3_Witness ==
  /\ backend = "nest" /\ pc = "done" /\ calls = 3 /\ ~IsPresent(returned)
  /\ delays = <<2000, 4000>>

\* The three attempts of the NestJS invoker have failed
AllAttemptsFailed ==
  /\ backend = "nest" /\ pc \in {"nest_filter", "done"}
  /\ calls = 3 /\ ~IsPresent(returned)

TransientMarks == {"rate limit", "timeout", "unavailable"}

TransientCode(marks) ==
  IF "rate limit" \in marks THEN "RATE_LIMIT_EXCEEDED"
  ELSE IF "timeout" \in marks THEN "REQUEST_TIMEOUT"
  ELSE "AI_SERVICE_UNAVAILABLE"

\* C5: a request that ends because the model call failed with a transient
\* upstream error (rate limit, timeout, unavailable) has used the attempts
\* of the retry bound (all 3 where the backend retries) and its response
\* carries the code of that error.
C5_TransientSurfacedWithOwnCode ==
  (FailedAtModel /\ lastOutcome.kind = "throw"
     /\ lastOutcome.err.marks \cap TransientMarks # {}) =>
    /\ calls <= 3
    /\ backend = "nest" => calls = 3
    /\ Len(responses) = 1
    /\ responses[1].code = TransientCode(lastOutcome.err.marks)

\* An ingredients field that is missing or has no non-empty entry
EmptyIngredients(field) ==
  field.form = "absent" \/ \A i \in DOMAIN field.items : field.items[i] = <<>>

\* The request is one that input validation rejects: missing or empty
\* ingredients, an ingredients text that is not JSON (Hono; the NestJS pipe
\* reads such a text as a comma-separated list), an image that is too
\* large or of a type that is not allowed, an empty image file (NestJS)
InputInvalid ==
  \/ EmptyIngredients(request.ingredients)
  \/ backend = "hono" /\ request.ingredients.form = "text"
  \/ \E i \in DOMAIN request.images :
        \/ request.images[i].size > 5 * 1024 * 1024
        \/ request.images[i].mime \notin
             {"image/jpeg", "image/jpg", "image/png", "image/webp"}
        \/ backend = "nest" /\ request.images[i].size = 0

\* C6: a request that fails input validation never reaches the model: no
\* call, no attempt, no backoff, and it is answered with an error.
C6_InvalidInputNeverCallsModel ==
  InputInvalid =>
    /\ calls = 0 /\ attempt = 0 /\ delays = <<>>
    /\ pc \notin {"hono_calling", "nest_attempt", "nest_calling",
                  "nest_sleeping"}
    /\ pc = "done" => Len(responses) = 1 /\ ~responses[1].success

C6_Witness ==
  /\ InputInvalid /\ pc = "done" /\ calls = 0
  /\ Len(responses) = 1 /\ ~responses[1].success

SixCodes ==
  {"INVALID_REQUEST", "AI_SERVICE_UNAVAILABLE", "REQUEST_TIMEOUT",
   "AI_RESPONSE_ERROR", "RATE_LIMIT_EXCEEDED", "INTERNAL_SERVER_ERROR"}

StatusOfCode(code) ==
  CASE code = "INVALID_REQUEST" -> 400
    [] code = "RATE_LIMIT_EXCEEDED" -> 429
    [] code = "AI_SERVICE_UNAVAILABLE" -> 502
    [] code = "REQUEST_TIMEOUT" -> 504
    [] code = "AI_RESPONSE_ERROR" -> 500
    [] code = "INTERNAL_SERVER_ERROR" -> 500

\* C7: in every error response with one of the six codes the HTTP status is
\* the one the table gives for the code.
C7_StatusFollowsCode ==
  \A r \in ErrorResponses : r.code \in SixCodes => r.status = StatusOfCode(r.code)

\* C8: every error response carries one of the six error codes.
C8_OnlySixCodes == \A r \in ErrorResponses : r.code \in SixCodes

\* The object has the four required keys with non-empty values
RequiredKeys(obj) ==
  /\ IsPresent(obj.title) /\ Trim(Get(obj.title)) # <<>>
  /\ IsPresent(obj.description) /\ Trim(Get(obj.description)) # <<>>
  /\ IsPresent(obj.ingredients)
  /\ \E i \in DOMAIN Get(obj.ingredients) : Trim(Get(obj.ingredients)[i]) # <<>>
  /\ IsPresent(obj.instructions)
  /\ \E i \in DOMAIN Get(obj.instructions) : Trim(Get(obj.instructions)[i]) # <<>>


C10_ExactlyOneResponse ==
  [](Len(responses) <= 1) /\ <>[](pc = "done" /\ Len(responses) = 1)

C10_Witness ==
  /\ pc = "done" /\ Len(responses) = 1 /\ IsPresent(thrown)
  /\ Get(thrown).cls = "Error" /\ calls = 3

\* No two entries of seq are equal ignoring letter case
NoCaseDuplicates(seq) ==
  \A i, j \in DOMAIN seq : i < j => ToLower(seq[i]) # ToLower(seq[j])

\* The first position of the field's items at which x appears, ignoring
\* surrounding blanks and letter case; 0 when there is none
FirstSeen(x, items) ==
  LET seen == {k \in DOMAIN items : ToLower(Trim(items[k])) = ToLower(x)}
  IN IF seen = {} THEN 0 ELSE CHOOSE k \in seen : \A m \in seen : k <= m

\* C11: the ingredient list that request validation produces from an
\* accepted ingredients field has no two entries that are equal ignoring
\* letter case, and its entries are in the order in which the field first
\* names them.
C11_NormalizedHasNoCaseDuplicates ==
  IsPresent(normalized) =>
    /\ NoCaseDuplicates(Get(normalized))
    /\ \A i, j \in DOMAIN Get(normalized) :
         i < j =>
           /\ FirstSeen(Get(normalized)[i], request.ingredients.items) > 0
           /\ FirstSeen(Get(normalized)[i], request.ingredients.items)
                < FirstSeen(Get(normalized)[j], request.ingredients.items)

\* The ingredients field is a JSON array without an entry that has a
\* character other than blanks
BlankIngredients ==
  /\ request.multipart
  /\ request.ingredients.form = "jsonArray"
  /\ \A i \in DOMAIN request.ingredients.items :
        Trim(request.ingredients.items[i]) = <<>>

\* C12: a request without images whose normalized ingredient list is empty
\* is answered with 400 INVALID_REQUEST and with nothing else, and the
\* model is not called for it.
C12_EmptyListIsInvalidRequest ==
  (pc = "done" /\ BlankIngredients /\ request.images = <<>>) =>
    /\ calls = 0
    /\ Len(responses) = 1
    /\ ~responses[1].success
    /\ responses[1].code = "INVALID_REQUEST"
    /\ responses[1].status = 400

\* C13: every call of the model carries min(n, 3) image parts for a request
\* with n images, and they are the first files of the upload, in order.
C13_AtMostThreeImagesForwarded ==
  calls > 0 =>
    /\ Len(forwarded) = (IF Len(request.images) < 3
                           THEN Len(request.images) ELSE 3)
    /\ \A i \in DOMAIN forwarded : forwarded[i].data = request.images[i].size

\* An upload the image rules exclude: more than 10 files, a file above
\* 5MB, or a file that is not JPEG, PNG or WebP
ImagesInvalid ==
  \/ Len(request.images) > 10
  \/ \E i \in DOMAIN request.images :
        \/ request.images[i].size > 5 * 1024 * 1024
        \/ request.images[i].mime \notin
             {"image/jpeg", "image/jpg", "image/png", "image/webp"}

\* C14: a request with an upload that the image rules exclude is answered
\* with 400 INVALID_REQUEST, and the model is not called for it.
C14_BadImagesAreInvalidRequest ==
  (ImagesInvalid /\ request.multipart) =>
    /\ calls = 0
    /\ pc = "done" =>
         /\ Len(responses) = 1
         /\ ~responses[1].success
         /\ responses[1].code = "INVALID_REQUEST"
         /\ responses[1].status = 400

\* The messages of the errors raised when no span is found or the span is
\* not JSON, and of the errors raised when the parsed value is not a recipe
ParseFailureTexts ==
  { <<"empty AI response">>, <<"JSON parse failed">>, <<"Unexpected token">>,
    <<"Failed to parse AI response: ", "No valid JSON found in AI response">>,
    <<"Failed to parse AI response: ", "Unexpected token">> }

ValidationFailureTexts ==
  { <<"AI_RESPONSE_ERROR">>,
    <<"Failed to parse AI response: ", "Recipe validation failed">> }

\* C15: the parsing of a model answer succeeds exactly when the answer
\* holds a span from its first "{" to its last "}" that is JSON, whatever
\* the prose around it: then the parsed value goes to the schema validation,
\* which returns the recipe or fails; otherwise the stage fails with a
\* parsing error (PARSING_ERROR in the retry loop) and a request that ends
\* there is answered with AI_RESPONSE_ERROR.
C15_ParserSucceedsIffSpanIsJson ==
  lastOutcome.kind = "text" =>
    IF AnsweredObject
      THEN \/ /\ IsPresent(returned)
              /\ pc = "done" /\ Len(responses) = 1 /\ responses[1].success
           \/ /\ ~IsPresent(returned)
              /\ IsPresent(lastError)
              /\ Get(lastError).text \in ValidationFailureTexts
      ELSE /\ ~IsPresent(returned)
           /\ IsPresent(lastError)
           /\ Get(lastError).text \in ParseFailureTexts
           /\ backend = "nest" => Get(lastError).code = "PARSING_ERROR"
           /\ pc = "done" =>
                /\ Len(responses) = 1
                /\ ~responses[1].success
                /\ responses[1].code = "AI_RESPONSE_ERROR"
                /\ responses[1].status = 500

\* An answer with prose around its object has been parsed into a recipe
C15_Witness ==
  /\ pc = "done" /\ IsPresent(returned)
  /\ lastOutcome.kind = "text"
  /\ lastOutcome.text.raw = <<"p", "{", "j", "}", "p">>

\* C16: the recipe of every success response has at least one ingredient
\* and at least one instruction, and none of them is the empty string.
C16_RecipeHasIngredientsAndInstructions ==
  \A i \in DOMAIN responses :
     responses[i].success =>
       /\ Len(Get(responses[i].data).ingredients) >= 1
       /\ Len(Get(responses[i].data).instructions) >= 1
       /\ \A k \in DOMAIN Get(responses[i].data).ingredients :
             Get(responses[i].data).ingredients[k] # <<>>
       /\ \A k \in DOMAIN Get(responses[i].data).instructions :
             Get(responses[i].data).instructions[k] # <<>>

\* The enhancer of the backend that serves the request
Enhance(recipe) ==
  IF backend = "hono" THEN enhanceRecipeQuality(recipe).recipe
  ELSE enhanceRecipe(recipe)

\* C17: the enhancer is idempotent: enhancing the recipe of a success
\* response, which is the enhancement of a validated recipe, returns that
\* recipe unchanged in every field.
C17_EnhancerIsIdempotent ==
  \A i \in DOMAIN responses :
     responses[i].success =>
       Enhance(Get(responses[i].data)) = Get(responses[i].data)

\* C18: the enhancer clamps numbers outside the ranges: a cookingTime
\* below 1 (0) becomes 5 and one above 480 (1000) becomes 480, servings
\* below 1 (0) become 1 and servings above 20 (100) become 20.
C18_OutOfRangeNumbersAreClamped ==
  (pc = "done" /\ Len(responses) = 1) =>
    /\ IsPresent(Get(returned).cookingTime) =>
         /\ Get(Get(returned).cookingTime) < 1 =>
              Get(responses[1].data).cookingTime = Some(5)
         /\ Get(Get(returned).cookingTime) > 480 =>
              Get(responses[1].data).cookingTime = Some(480)
    /\ IsPresent(Get(returned).servings) =>
         /\ Get(Get(returned).servings) < 1 =>
              Get(responses[1].data).servings = Some(1)
         /\ Get(Get(returned).servings) > 20 =>
              Get(responses[1].data).servings = Some(20)
    /\ Get(returned).cookingTime = Some(0) =>
         Get(responses[1].data).cookingTime = Some(5)
    /\ Get(returned).cookingTime = Some(1000) =>
         Get(responses[1].data).cookingTime = Some(480)
    /\ Get(returned).servings = Some(0) =>
         Get(responses[1].data).servings = Some(1)
    /\ Get(returned).servings = Some(100) =>
         Get(responses[1].data).servings = Some(20)

\* The enhancer has turned a cookingTime of 0 and servings of 100 into 5
\* and 20
C18_Witness ==
  /\ pc = "done" /\ Len(responses) = 1
  /\ Get(returned).cookingTime = Some(0)
  /\ Get(returned).servings = Some(100)
  /\ Get(responses[1].data).cookingTime = Some(5)
  /\ Get(responses[1].data).servings = Some(20)

\* C19: in the recipe of every success response cookingTime, if present, is
\* between 5 and 480 and servings, if present, are between 1 and 20.
C19_NumbersWithinRanges ==
  \A i \in DOMAIN responses :
     responses[i].success =>
       /\ IsPresent(Get(responses[i].data).cookingTime) =>
            /\ Get(Get(responses[i].data).cookingTime) >= 5
            /\ Get(Get(responses[i].data).cookingTime) <= 480
       /\ IsPresent(Get(responses[i].data).servings) =>
            /\ Get(Get(responses[i].data).servings) >= 1
            /\ Get(Get(responses[i].data).servings) <= 20

\* C20: the ingredient list of the recipe of every success response has no
\* two entries that are equal ignoring letter case.
C20_EnhancedHasNoCaseDuplicates ==
  \A i \in DOMAIN responses :
     responses[i].success =>
       NoCaseDuplicates(Get(responses[i].data).ingredients)

\* seq begins with the elements of prefix
StartsWith(seq, prefix) ==
  Len(seq) >= Len(prefix) /\ SubSeq(seq, 1, Len(prefix)) = prefix

\* C21: the instructions of the recipe of a success response are numbered
\* from 1 without gaps: the k-th instruction begins with "k. ".
C21_InstructionsNumberedFromOne ==
  \A i \in DOMAIN responses :
     responses[i].success =>
       \A k \in DOMAIN Get(responses[i].data).instructions :
          StartsWith(Get(responses[i].data).instructions[k],
                     NumStr(k) \o <<".", " ">>)

\* C22: when the model answers with the ingredients onion, onion, chicken
\* thigh and the instructions "1. cut" and "ok", the success response has
\* exactly the ingredients onion, chicken thigh, in that order, and no
\* instruction that comes from "ok".
C22_DedupedInOrderAndShortStepDropped ==
  \A i \in DOMAIN responses :
     (responses[i].success /\ lastOutcome.text.obj = GoodObject) =>
       /\ Get(responses[i].data).ingredients = <<Onion, ChickenThigh>>
       /\ \A k \in DOMAIN Get(responses[i].data).instructions :
             ~Includes(Get(responses[i].data).instructions[k], Ok)

\* C23: the quality check is advisory: whenever the validation has returned
\* a recipe the request is answered with the one success response that
\* carries the recipe, whatever issues the check found; hasIssues is true
\* exactly when the issue list is not empty, and an error response carries
\* no issues.
C23_QualityCheckIsAdvisory ==
  /\ IsPresent(returned) =>
       /\ pc = "done" /\ Len(responses) = 1
       /\ responses[1].success /\ responses[1].status = 200
       /\ responses[1].data = Some(Enhance(Get(returned)))
  /\ \A i \in DOMAIN responses :
        /\ responses[i].hasIssues <=> responses[i].issues # <<>>
        /\ ~responses[i].success => responses[i].issues = <<>>

\* A recipe with quality issues has been returned in a success response
C23_Witness ==
  /\ backend = "nest" /\ pc = "done" /\ IsPresent(returned)
  /\ Len(responses) = 1 /\ responses[1].success
  /\ responses[1].hasIssues /\ Len(responses[1].issues) >= 2

\* ------------------------------------------------------------------------
\* Two requests in flight: each is an activation of the handler with its
\* own locals.  AiService holds genAI, assigned once in the constructor,
\* and a logger; the Hono handler creates its provider per request.
\* ------------------------------------------------------------------------
RequestIds == {1, 2}

\* What the generation API does in the concurrent runs: it throws, it
\* answers prose, or it answers a recipe
ConcurrentOutcomes ==
  { [kind |-> "throw",
     err |-> [text |-> "rate limit exceeded", marks |-> {"rate limit"}],
     text |-> NoText],
    [kind |-> "text", err |-> NoUpstreamError,
     text |-> [raw |-> <<"p">>, obj |-> GoodObject]],
    [kind |-> "text", err |-> NoUpstreamError,
     text |-> [raw |-> <<"{", "j", "}">>, obj |-> GoodObject]] }

\* The activation of a handler whose request passed the validation:
\* results are the outcomes of its own calls of the generation API, in order
NewFrame(b) ==
  [backend |-> b, pc |-> IF b = "nest" THEN "attempt" ELSE "hono_handler",
   attempt |-> IF b = "nest" THEN 1 ELSE 0, calls |-> 0, delays |-> <<>>,
   results |-> <<>>, thrown |-> Absent, responses |-> <<>>]

ConcurrentInit ==
  /\ ServerIdle
  /\ frames \in [RequestIds -> {NewFrame(b) : b \in {"hono", "nest"}}]
  /\ validator = Unmounted
  /\ mutation = Unmounted
  /\ ingredientsHook = Unmounted
  /\ imageUpload = Unmounted
  /\ page = Unmounted

\* A loop counter kept in a field of the AiService singleton
nextAttempt_shared(fs, id) ==
  LET top == CHOOSE i \in DOMAIN fs : \A j \in DOMAIN fs :
                                         fs[j].attempt <= fs[i].attempt
  IN fs[top].attempt + 1

\* for (let attempt = 1; ...; attempt++): the counter is a local of the
\* activation
nextAttempt(fs, id) == fs[id].attempt + 1

\* Hono: the handler of request id calls aiProvider.generateRecipe
FrameHonoCall(id) ==
  /\ frames[id].pc = "hono_handler"
  /\ frames' = [frames EXCEPT ![id].pc = "hono_calling",
                              ![id].calls = @ + 1]
  /\ UNCHANGED serverVars
  /\ UNCHANGED <<validator, mutation, ingredientsHook, imageUpload, page>>

\* Hono: the provider call of request id completes and the handler answers
FrameHonoComplete(id) ==
  /\ frames[id].pc = "hono_calling"
  /\ \E outcome \in ConcurrentOutcomes :
       frames' = [frames EXCEPT
                    ![id].pc = "done",
                    ![id].results = Append(@, outcome),
                    ![id].responses =
                        Append(@, honoCompletions[outcome].response)]
  /\ UNCHANGED serverVars
  /\ UNCHANGED <<validator, mutation, ingredientsHook, imageUpload, page>>

\* Nest: one attempt of request id calls model.generateContent
FrameAttemptStart(id) ==
  /\ frames[id].pc = "attempt"
  /\ frames[id].attempt <= maxRetries
  /\ frames' = [frames EXCEPT ![id].pc = "calling", ![id].calls = @ + 1]
  /\ UNCHANGED serverVars
  /\ UNCHANGED <<validator, mutation, ingredientsHook, imageUpload, page>>

\* Nest: the call of request id answers or throws
FrameAttemptEnd(id) ==
  /\ frames[id].pc = "calling"
  /\ frames[id].attempt \in 1..maxRetries
  /\ \E outcome \in ConcurrentOutcomes :
       LET f == frames[id]
           a == nestAttempts[outcome][f.attempt]
       IN frames' =
            [frames EXCEPT ![id] =
               IF a.r.ok
                 THEN [f EXCEPT !.results = Append(@, outcome),
                                !.responses = Append(@, Get(a.response)),
                                !.pc = "done"]
               ELSE IF isLastAttempt(f.attempt)
                 THEN [f EXCEPT !.results = Append(@, outcome),
                                !.thrown =
                                   Some(handleAIError(exhausted(a.r.err))),
                                !.pc = "filter"]
               ELSE [f EXCEPT !.results = Append(@, outcome),
                              !.delays = Append(@, backoffDelay(f.attempt)),
                              !.pc = "sleeping"]]
  /\ UNCHANGED serverVars
  /\ UNCHANGED <<validator, mutation, ingredientsHook, imageUpload, page>>

\* Nest: the backoff timer of request id fires
FrameWake(id) ==
  /\ frames[id].pc = "sleeping"
  /\ LET n == nextAttempt(frames, id)
     IN frames' =
          [frames EXCEPT ![id] =
             IF n <= maxRetries
               THEN [@ EXCEPT !.attempt = n, !.pc = "attempt"]
               ELSE [@ EXCEPT
                       !.attempt = n,
                       !.thrown =
                          Some(handleAIError(
                                 PlainError("All retry attempts failed",
                                            {}, 0))),
                       !.pc = "filter"]]
  /\ UNCHANGED serverVars
  /\ UNCHANGED <<validator, mutation, ingredientsHook, imageUpload, page>>

\* Nest: AiExceptionFilter.catch for request id
FrameFilter(id) ==
  /\ frames[id].pc = "filter"
  /\ frames' = [frames EXCEPT
                  ![id].responses =
                      Append(@, buildErrorResponse(Get(frames[id].thrown))),
                  ![id].pc = "done"]
  /\ UNCHANGED serverVars
  /\ UNCHANGED <<validator, mutation, ingredientsHook, imageUpload, page>>

ConcurrentNext ==
  \E id \in RequestIds :
    \/ FrameHonoCall(id)
    \/ FrameHonoComplete(id)
    \/ FrameAttemptStart(id)
    \/ FrameAttemptEnd(id)
    \/ FrameWake(id)
    \/ FrameFilter(id)

ConcurrentSpec == ConcurrentInit /\ [][ConcurrentNext]_vars

\* The outcome fails its attempt: the call threw or its text has no recipe
FailsAttempt(outcome, n) == ~nestAttempts[outcome][n].r.ok

\* The state a NestJS activation has after the calls with the outcomes rs
\* when it runs alone: counter, calls, sleeps and response follow from rs
\* and from how far the activation got
AloneNest(f) ==
  LET rs == f.results
      k == Len(rs)
  IN /\ k <= maxRetries
     /\ \A i \in 1..(k - 1) : FailsAttempt(rs[i], i)
     /\ f.pc \in {"attempt", "calling"} =>
          /\ f.attempt = k + 1
          /\ f.calls = (IF f.pc = "calling" THEN k + 1 ELSE k)
          /\ \A i \in 1..k : FailsAttempt(rs[i], i)
     /\ f.pc \in {"sleeping", "filter", "done"} =>
          /\ k >= 1 /\ f.attempt = k /\ f.calls = k
     /\ f.pc = "sleeping" => FailsAttempt(rs[k], k) /\ k < maxRetries
     /\ f.delays = [i \in 1..(IF f.pc \in {"filter", "done"}
                                THEN k - 1 ELSE k) |-> backoffDelay(i)]
     /\ f.pc = "filter" => k = maxRetries /\ FailsAttempt(rs[k], k)
     /\ f.pc # "done" => f.responses = <<>>
     /\ f.pc = "done" =>
          IF FailsAttempt(rs[k], k)
            THEN /\ k = maxRetries
                 /\ f.responses =
                      << buildErrorResponse(
                           handleAIError(attemptResult(rs[k], k).err)) >>
            ELSE f.responses = << serviceResponse(attemptResult(rs[k], k).recipe) >>

\* The same for an activation of the Hono handler: one call, no sleep
AloneHono(f) ==
  /\ f.delays = <<>> /\ f.attempt = 0
  /\ f.pc = "hono_handler" => f.calls = 0 /\ f.results = <<>>
  /\ f.pc = "hono_calling" => f.calls = 1 /\ f.results = <<>>
  /\ f.pc # "done" => f.responses = <<>>
  /\ f.pc = "done" =>
       /\ f.calls = 1 /\ Len(f.results) = 1
       /\ f.responses = << honoCompletions[f.results[1]].response >>

\* C24: under every interleaving of two requests in flight, the attempt
\* counter, the calls, the backoff sleeps and the response of each request
\* are those its own model-call results give it when it runs alone; a
\* request answers with an error only after maxRetries failed calls of its
\* own
C24_RequestsShareNoState ==
  \A id \in RequestIds :
    IF frames[id].backend = "nest"
      THEN AloneNest(frames[id])
      ELSE AloneHono(frames[id])

\* Request 1 used up its three attempts and was answered with an error
\* while request 2, in flight at the same time, is in its first attempt
C24_Witness ==
  /\ frames[1].backend = "nest" /\ frames[1].pc = "done"
  /\ frames[1].calls = 3 /\ frames[1].delays = <<2000, 4000>>
  /\ ~frames[1].responses[1].success
  /\ frames[2].backend = "nest" /\ frames[2].pc = "calling"
  /\ frames[2].attempt = 1 /\ frames[2].delays = <<>>

\* ------------------------------------------------------------------------
\* Frontend: lib/utils/ingredientValidation.ts
\* ------------------------------------------------------------------------
\* The least number of a non-empty set
Least(S) == CHOOSE x \in S : \A y \in S : x <= y

\* DEFAULT_VALIDATION_OPTIONS
DEFAULT_VALIDATION_OPTIONS ==
  [minLength |-> 1, maxLength |-> 100, allowDuplicates |-> FALSE,
   allowEmptySpaces |-> FALSE, maxIngredients |-> 50, strictMode |-> FALSE]

\* One-character tokens for U+0000, U+0001 and U+007F
NUL == "<NUL>"

SOH == "<SOH>"

DEL == "<DEL>"

\* [\x00-\x1f\x7f]: tab and line feed are in the range
ControlChars == {NUL, SOH, DEL, "\t", "\n"}

\* [<>{}[\]\\\/]
SpecialChars == {"<", ">", "{", "}", "[", "]", "\\", "/"}

\* The alternatives of SUSPICIOUS_PATTERNS.sqlInjection, in order
SqlKeywords ==
  << <<"u","n","i","o","n">>,
     <<"s","e","l","e","c","t">>,
     <<"i","n","s","e","r","t">>,
     <<"u","p","d","a","t","e">>,
     <<"d","e","l","e","t","e">>,
     <<"d","r","o","p">>,
     <<"c","r","e","a","t","e">>,
     <<"a","l","t","e","r">>,
     <<"e","x","e","c">>,
     <<"e","x","e","c","u","t","e">> >>

\* The alternatives of SUSPICIOUS_PATTERNS.javascript, in order
ScriptSchemes ==
  << <<"j","a","v","a","s","c","r","i","p","t">>,
     <<"v","b","s","c","r","i","p","t">>,
     <<"o","n","c","l","i","c","k">>,
     <<"o","n","e","r","r","o","r">>,
     <<"o","n","l","o","a","d">> >>

\* The texts SUSPICIOUS_PATTERNS.urls matches, in the order it tries them
UrlPrefixes ==
  << <<"h","t","t","p","s",":","/","/">>,
     <<"h","t","t","p",":","/","/">>,
     <<"f","t","p",":","/","/">>,
     <<"w","w","w",".">> >>

\* The word w is at offset i of s (offsets from 0), ignoring letter case
WordAt(s, i, w) ==
  /\ i + Len(w) <= Len(s)
  /\ SubSeq(ToLower(s), i + 1, i + Len(w)) = w

\* The element of a set of one element
Only(S) == CHOOSE x \in S : TRUE

\* The end offset of the match of (w1|w2|...) at offset i, case-insensitive,
\* or -1 when none of the words is there
WordEnd(s, i, words) ==
  LET hits == {k \in DOMAIN words : WordAt(s, i, words[k])}
  IN IF hits = {} THEN -1 ELSE i + Len(words[Least(hits)])

\* The end offset of the match of (w1|w2|...)[follow] at offset i, or -1
WordThenEnd(s, i, words, follow) ==
  LET hits == {k \in DOMAIN words :
                 /\ WordAt(s, i, words[k])
                 /\ i + Len(words[k]) < Len(s)
                 /\ s[i + Len(words[k]) + 1] \in follow}
  IN IF hits = {} THEN -1 ELSE i + Len(words[Least(hits)]) + 1

\* /<[^>]*>/ at offset i
htmlTagsEnd(s, i) ==
  LET closes == {j \in (i + 2)..Len(s) : s[j] = ">"}
  IN IF i < Len(s) /\ s[i + 1] = "<" /\ closes # {}
       THEN Least(closes)
       ELSE -1

\* /<script[^>]*>.*?<\/script>/i at offset i
scriptTagsEnd(s, i) ==
  LET closes == {j \in (i + 8)..Len(s) : s[j] = ">"}
      ends == {m \in (i + 8)..Len(s) :
                 /\ closes # {} /\ m >= Least(closes)
                 /\ WordAt(s, m, <<"<","/","s","c","r","i","p","t",">">>)
                 /\ \A j \in (Least(closes) + 1)..m : s[j] # "\n"}
  IN IF WordAt(s, i, <<"<","s","c","r","i","p","t">>) /\ ends # {}
       THEN Least(ends) + 9
       ELSE -1

\* /\s{2,}/ at offset i
multipleSpacesEnd(s, i) ==
  IF i + 2 <= Len(s) /\ s[i + 1] \in Whitespace /\ s[i + 2] \in Whitespace
    THEN CHOOSE e \in (i + 2)..Len(s) :
           /\ \A j \in (i + 1)..e : s[j] \in Whitespace
           /\ e < Len(s) => s[e + 1] \notin Whitespace
    ELSE -1

\* The patterns of FORBIDDEN_PATTERNS and SUSPICIOUS_PATTERNS that carry the
\* g flag: each is one RegExp object of the module, with its lastIndex
GlobalPatterns ==
  {"htmlTags", "scriptTags", "specialChars", "controlChars",
   "multipleSpaces", "sqlInjection", "javascript", "urls"}

\* The end offset of the match of pattern p that starts at offset i of s,
\* or -1 when p does not match there
matchEnd(p, s, i) ==
  CASE p = "htmlTags" -> htmlTagsEnd(s, i)
    [] p = "scriptTags" -> scriptTagsEnd(s, i)
    [] p = "specialChars" ->
         IF i < Len(s) /\ s[i + 1] \in SpecialChars THEN i + 1 ELSE -1
    [] p = "controlChars" ->
         IF i < Len(s) /\ s[i + 1] \in ControlChars THEN i + 1 ELSE -1
    [] p = "multipleSpaces" -> multipleSpacesEnd(s, i)
    [] p = "sqlInjection" -> WordThenEnd(s, i, SqlKeywords, Whitespace)
    [] p = "javascript" -> WordThenEnd(s, i, ScriptSchemes, {":"})
    [] p = "urls" -> WordEnd(s, i, UrlPrefixes)

\* pattern.test(s) for a pattern with the g flag: the search starts at the
\* pattern's lastIndex; a match moves lastIndex to its end, a failure
\* resets it to 0
regexTest(p, s, lastIndex) ==
  LET starts == {i \in lastIndex..Len(s) : matchEnd(p, s, i) >= 0}
  IN IF starts = {}
       THEN [found |-> FALSE, lastIndex |-> 0]
       ELSE [found |-> TRUE, lastIndex |-> matchEnd(p, s, Least(starts))]

\* The characters of allowedPattern (strict mode)
StrictAllowed ==
  LowerLatin \cup UpperLatin \cup Digits \cup Whitespace \cup CJKChars \cup
  {"-", ",", ".", "(", ")"}

\* validateIngredientName(name, existingIngredients, options), called when
\* the patterns' lastIndex values are lastIndexes.  errors and warnings name
\* the messages pushed, in order; lastIndexes are the values after the call
validateIngredientName(name, existingIngredients, options, lastIndexes) ==
  LET opts == options
  IN Only({
       LET isDuplicate ==
              \E k \in DOMAIN existingIngredients :
                ToLower(existingIngredients[k]) = ToLower(trimmedName)
            errors ==
              (IF Len(trimmedName) < opts.minLength THEN <<"tooShort">> ELSE <<>>)
              \o (IF Len(trimmedName) > opts.maxLength THEN <<"tooLong">> ELSE <<>>)
              \o (IF ~opts.allowDuplicates /\ Len(existingIngredients) > 0
                     /\ isDuplicate THEN <<"duplicate">> ELSE <<>>)
              \o (IF tests["htmlTags"].found THEN <<"htmlTag">> ELSE <<>>)
              \o (IF tests["scriptTags"].found THEN <<"htmlTag">> ELSE <<>>)
              \o (IF tests["specialChars"].found THEN <<"specialChars">> ELSE <<>>)
              \o (IF tests["controlChars"].found THEN <<"controlChars">> ELSE <<>>)
              \o (IF tests["multipleSpaces"].found /\ ~opts.allowEmptySpaces
                    THEN <<"multipleSpaces">> ELSE <<>>)
              \o (IF tests["sqlInjection"].found THEN <<"suspicious">> ELSE <<>>)
              \o (IF tests["javascript"].found THEN <<"script">> ELSE <<>>)
              \o (IF Len(trimmedName) >= 200 /\ "\n" \notin Range(trimmedName)
                    THEN <<"extremeLength">> ELSE <<>>)
              \o (IF opts.strictMode
                     /\ \E i \in DOMAIN trimmedName : trimmedName[i] \notin StrictAllowed
                    THEN <<"strictCharacters">> ELSE <<>>)
            warnings ==
              (IF tests["urls"].found THEN <<"url">> ELSE <<>>)
              \o (IF \A i \in DOMAIN trimmedName : trimmedName[i] \in Digits
                    THEN <<"numbersOnly">> ELSE <<>>)
        IN IF trimmedName = <<>>
             THEN [isValid |-> FALSE, errors |-> <<"empty">>, warnings |-> <<>>,
                   lastIndexes |-> lastIndexes]
             ELSE [isValid |-> Len(errors) = 0, errors |-> errors,
                   warnings |-> warnings,
                   lastIndexes |-> [p \in GlobalPatterns |-> tests[p].lastIndex]]
       : trimmedName \in {Trim(name)},
         tests \in {Explicit([p \in GlobalPatterns |->
                       regexTest(p, Trim(name), lastIndexes[p])])} })

\* Names a caller validates: an HTML tag, a script scheme, SQL keywords
\* followed by a space, a control character, and plain names
NameSamples ==
  { <<"<","b",">">>,
    <<"o","n","l","o","a","d",":","a">>,
    <<"d","r","o","p"," ","x">>,
    <<"D","R","O","P"," ","y">>,
    <<"a", SOH>>,
    <<"e","g","g">> }

\* The module is loaded: every pattern's lastIndex is 0, no call was made
\* log lists the calls made, with their results
ValidatorLoaded == [lastIndexes |-> [p \in GlobalPatterns |-> 0], log |-> <<>>]

\* The number of calls of validateIngredientName in a run
MaxValidations == 3

ValidatorInit ==
  /\ ServerIdle
  /\ frames = Unmounted
  /\ validator = ValidatorLoaded
  /\ mutation = Unmounted
  /\ ingredientsHook = Unmounted
  /\ imageUpload = Unmounted
  /\ page = Unmounted

\* A caller validates a name with the default arguments
ValidateName ==
  /\ Len(validator.log) < MaxValidations
  /\ \E name \in NameSamples :
       LET r == validateIngredientName(name, <<>>, DEFAULT_VALIDATION_OPTIONS,
                                       validator.lastIndexes)
       IN validator' =
            [lastIndexes |-> r.lastIndexes,
             log |-> Append(validator.log,
                            [name |-> name, isValid |-> r.isValid,
                             errors |-> r.errors, warnings |-> r.warnings])]
  /\ UNCHANGED serverVars
  /\ UNCHANGED <<frames, mutation, ingredientsHook, imageUpload, page>>

ValidatorNext == ValidateName

ValidatorSpec == ValidatorInit /\ [][ValidatorNext]_vars

\* The name has a match of pattern p somewhere
Matches(p, s) == \E i \in 0..Len(s) : matchEnd(p, s, i) >= 0

\* The name contains an HTML tag, a script scheme, an SQL keyword followed
\* by whitespace, or a control character
Dangerous(s) ==
  \/ Matches("htmlTags", Trim(s))
  \/ Matches("javascript", Trim(s))
  \/ Matches("sqlInjection", Trim(s))
  \/ Matches("controlChars", Trim(s))

\* C25: in any sequence of calls of validateIngredientName, a call whose
\* name contains an HTML tag, a javascript:/vbscript: scheme, an SQL keyword
\* followed by whitespace, or a control character returns isValid = false
C25_DangerousNamesAreInvalid ==
  \A k \in DOMAIN validator.log :
    Dangerous(validator.log[k].name) => ~validator.log[k].isValid

\* ------------------------------------------------------------------------
\* Frontend: hooks/useRecipeGeneration.ts and lib/api (the mutation that
\* generates a recipe)
\* ------------------------------------------------------------------------
\* What happens to one HTTP request of the multipart client: the backend
\* answers with a status and an error code, or no response arrives
BackendAnswers ==
  { [kind |-> "response", status |-> 200, code |-> NoCode],
    [kind |-> "response", status |-> 400, code |-> "INVALID_REQUEST"],
    [kind |-> "response", status |-> 413, code |-> "PAYLOAD_TOO_LARGE"],
    [kind |-> "response", status |-> 429, code |-> "AI_API_ERROR"],
    [kind |-> "response", status |-> 500, code |-> "INTERNAL_SERVER_ERROR"],
    [kind |-> "response", status |-> 503, code |-> "AI_SERVICE_UNAVAILABLE"],
    [kind |-> "none", status |-> 0, code |-> "ERR_NETWORK"],
    [kind |-> "none", status |-> 0, code |-> "ECONNABORTED"] }

\* multipartClient.post: an instance made by axios.create with no
\* interceptor; with the default validateStatus it resolves for 2xx and
\* rejects with an AxiosError otherwise
axiosPost(ans) ==
  IF ans.kind = "response" /\ ans.status >= 200 /\ ans.status < 300
    THEN [ok |-> TRUE, cls |-> "AxiosResponse", status |-> Some(ans.status),
          code |-> NoCode]
    ELSE [ok |-> FALSE, cls |-> "AxiosError",
          status |-> IF ans.kind = "response" THEN Some(ans.status)
                     ELSE Absent,
          code |-> ans.code]

\* RecipeApi.generateRecipe from the completion of the post on: the data of
\* the response, or the error thrown by the catch block
apiGenerateRecipe(ans) ==
  LET r == axiosPost(ans)
  IN IF r.ok THEN r
     ELSE IF r.cls = "ApiError" THEN r
     ELSE [ok |-> FALSE, cls |-> "ApiError", status |-> Some(500),
           code |-> "RECIPE_GENERATION_ERROR"]

\* ApiError.isNetworkError
isNetworkError(e) == e.code \in {"NETWORK_ERROR", "ECONNREFUSED"}

\* ApiError.isServerError
isServerError(e) ==
  IF IsPresent(e.status) /\ Get(e.status) # 0
    THEN Get(e.status) >= 500 ELSE FALSE

\* ApiError.isClientError
isClientError(e) ==
  IF IsPresent(e.status) /\ Get(e.status) # 0
    THEN Get(e.status) >= 400 /\ Get(e.status) < 500 ELSE FALSE

\* The retry option of the mutation
shouldRetry(failureCount, e) ==
  IF e.cls = "ApiError"
    THEN IF isClientError(e) THEN FALSE
         ELSE IF isNetworkError(e) THEN failureCount < 1
         ELSE IF isServerError(e) THEN failureCount < 1
         ELSE FALSE
    ELSE FALSE

\* retryDelay: 3000
retryDelay == 3000

\* The variables a page passes to mutate
MutationRequests ==
  { [ingredients |-> << Onion >>, images |-> 0],
    [ingredients |-> << Onion, ChickenThigh >>, images |-> 0],
    [ingredients |-> << Onion >>, images |-> 1] }

\* The mutation before mutate is called
MutationIdle ==
  [status |-> "idle", variables |-> Absent, failureCount |-> 0,
   httpRequests |-> 0, answers |-> <<>>, waits |-> <<>>, error |-> Absent]

MutationInit ==
  /\ ServerIdle
  /\ frames = Unmounted
  /\ validator = Unmounted
  /\ mutation = MutationIdle
  /\ ingredientsHook = Unmounted
  /\ imageUpload = Unmounted
  /\ page = Unmounted

\* mutate(request): the mutation function runs and posts the form
Mutate ==
  /\ mutation.status = "idle"
  /\ \E r \in MutationRequests :
       mutation' = [mutation EXCEPT !.status = "pending",
                                    !.variables = Some(r),
                                    !.httpRequests = @ + 1]
  /\ UNCHANGED serverVars
  /\ UNCHANGED <<frames, validator, ingredientsHook, imageUpload, page>>

\* The post completes: the mutation succeeds, or the retryer asks the retry
\* option whether to run the mutation function again
MutationSettle ==
  /\ mutation.status = "pending"
  /\ \E ans \in BackendAnswers :
       LET r == apiGenerateRecipe(ans)
       IN mutation' =
            IF r.ok
              THEN [mutation EXCEPT !.status = "success",
                                    !.answers = Append(@, ans)]
            ELSE IF shouldRetry(mutation.failureCount, r)
              THEN [mutation EXCEPT !.status = "paused",
                                    !.answers = Append(@, ans),
                                    !.failureCount = @ + 1,
                                    !.waits = Append(@, retryDelay)]
            ELSE [mutation EXCEPT !.status = "error",
                                  !.answers = Append(@, ans),
                                  !.failureCount = @ + 1,
                                  !.error = Some(r)]
  /\ UNCHANGED serverVars
  /\ UNCHANGED <<frames, validator, ingredientsHook, imageUpload, page>>

\* The retry delay is over: the mutation function runs again
MutationRetry ==
  /\ mutation.status = "paused"
  /\ mutation' = [mutation EXCEPT !.status = "pending",
                                  !.httpRequests = @ + 1]
  /\ UNCHANGED serverVars
  /\ UNCHANGED <<frames, validator, ingredientsHook, imageUpload, page>>

MutationNext == Mutate \/ MutationSettle \/ MutationRetry

MutationSpec == MutationInit /\ [][MutationNext]_vars

\* The backend answered the k-th HTTP request of the generation with 4xx
AnsweredClientError(k) ==
  /\ k \in DOMAIN mutation.answers
  /\ mutation.answers[k].kind = "response"
  /\ mutation.answers[k].status >= 400 /\ mutation.answers[k].status < 500

\* C26: one generation sends at most 2 HTTP requests, and a request the
\* backend answered with 4xx is never followed by a retry: the generation
\* then sent exactly 1 request
C26_ClientErrorsAreNotRetried ==
  /\ mutation.httpRequests <= 2
  /\ \A k \in DOMAIN mutation.answers :
       AnsweredClientError(k) =>
          /\ mutation.status = "error"
          /\ mutation.httpRequests = k
  /\ AnsweredClientError(1) => mutation.httpRequests = 1

\* ------------------------------------------------------------------------
\* Frontend: the hook useIngredients.  The callbacks of a render see the
\* ingredient list of that render; functional updates (setIngredients(prev
\* => ...)) apply to the latest list.  The model covers the operations that
\* add, rename or remove entries.
\* ------------------------------------------------------------------------
\* DEFAULT_OPTIONS of useIngredients
DEFAULT_OPTIONS ==
  [maxIngredients |-> 50, allowDuplicates |-> FALSE, autoTrim |-> TRUE,
   minLength |-> 1, maxLength |-> 100]

\* The options of the hook in the runs: useIngredients({ maxIngredients: 2 })
HookOptions == [DEFAULT_OPTIONS EXCEPT !.maxIngredients = 2]

\* The number of ingredient objects created in a run
MaxCreated == 3

\* validationOptions of the hook's validateIngredientName
hookValidationOptions(opts) ==
  [minLength |-> opts.minLength, maxLength |-> opts.maxLength,
   allowDuplicates |-> opts.allowDuplicates,
   maxIngredients |-> opts.maxIngredients, allowEmptySpaces |-> FALSE,
   strictMode |-> FALSE]

\* ingredients.filter(ing => ing.id !== excludeId).map(ing => ing.name);
\* excludeId 0 stands for undefined
existingNames(list, excludeId) ==
  LET keep == {i \in DOMAIN list : list[i].id # excludeId}
  IN [k \in 1..Cardinality(keep) |->
        list[CHOOSE i \in keep : Cardinality({j \in keep : j <= i}) = k].name]

\* The hook's validateIngredientName(name, excludeId) of a render whose
\* ingredient list is list
hookValidate(list, name, excludeId, lastIndexes) ==
  validateIngredientName(name, existingNames(list, excludeId),
                         hookValidationOptions(HookOptions), lastIndexes)

\* canAddMore of a render whose ingredient list is list
canAddMore(list) == Len(list) < HookOptions.maxIngredients

\* opts.autoTrim ? name.trim() : name
autoTrimmed(name) == IF HookOptions.autoTrim THEN Trim(name) ELSE name

\* The loop of addMultipleIngredients(names) in a render whose list is
\* list: the names it adds, its errors and the patterns' lastIndex values
addMultipleLoop(list, names, lastIndexes) ==
  LET loop[k \in 0..Len(names)] ==
        IF k = 0
          THEN [added |-> <<>>, addErrors |-> <<>>,
                lastIndexes |-> lastIndexes, stopped |-> FALSE]
          ELSE Only({
                 LET v == hookValidate(list, names[k], 0, prev.lastIndexes)
                 IN IF prev.stopped THEN prev
                    ELSE IF Len(list) + Len(prev.added)
                              >= HookOptions.maxIngredients
                      THEN [prev EXCEPT !.addErrors = Append(@, "limitReached"),
                                        !.stopped = TRUE]
                    ELSE IF v.isValid
                      THEN [prev EXCEPT !.added = Append(@, autoTrimmed(names[k])),
                                        !.lastIndexes = v.lastIndexes]
                    ELSE [prev EXCEPT !.addErrors = Append(@, "invalid"),
                                      !.lastIndexes = v.lastIndexes]
                 : prev \in {loop[k - 1]} })
  IN loop[Len(names)]

\* validateMultipleIngredients(names, existingIngredients, options)
validateMultipleIngredients(names, existingIngredients, options, lastIndexes) ==
  LET inputNamesLower == [i \in DOMAIN names |-> ToLower(Trim(names[i]))]
      duplicateInputs ==
        {i \in DOMAIN names : \E j \in 1..(i - 1) :
                                 inputNamesLower[j] = inputNamesLower[i]}
      globalErrors ==
        (IF Len(names) + Len(existingIngredients) > options.maxIngredients
           THEN <<"overLimit">> ELSE <<>>)
        \o (IF duplicateInputs # {} /\ ~options.allowDuplicates
              THEN <<"duplicateInputs">> ELSE <<>>)
      loop[k \in 0..Len(names)] ==
        IF k = 0
          THEN [cumulativeIngredients |-> existingIngredients,
                validNames |-> <<>>, invalidNames |-> <<>>,
                errors |-> <<>>, lastIndexes |-> lastIndexes]
          ELSE Only({
                 LET v == validateIngredientName(names[k],
                                                 prev.cumulativeIngredients,
                                                 options, prev.lastIndexes)
                 IN IF v.isValid
                      THEN [prev EXCEPT
                              !.validNames = Append(@, Trim(names[k])),
                              !.cumulativeIngredients =
                                 Append(@, Trim(names[k])),
                              !.lastIndexes = v.lastIndexes]
                      ELSE [prev EXCEPT
                              !.invalidNames = Append(@, Trim(names[k])),
                              !.errors = @ \o v.errors,
                              !.lastIndexes = v.lastIndexes]
                 : prev \in {loop[k - 1]} })
  IN Only({ [globalErrors |-> globalErrors, validNames |-> done.validNames,
             invalidNames |-> done.invalidNames, errors |-> done.errors,
             lastIndexes |-> done.lastIndexes]
            : done \in {loop[Len(names)]} })

\* The non-empty trimmed pieces of a comma-separated input
nonEmptyPieces(pieces) ==
  LET keep == {i \in DOMAIN pieces : Trim(pieces[i]) # <<>>}
  IN [k \in 1..Cardinality(keep) |->
        Trim(pieces[CHOOSE i \in keep :
                      Cardinality({j \in keep : j <= i}) = k])]

\* validateCommaSeparatedIngredients(input, existingIngredients, options);
\* the input is given by its pieces between the commas
validateCommaSeparatedIngredients(pieces, existingIngredients, options, lastIndexes) ==
  IF nonEmptyPieces(pieces) = <<>>
    THEN [globalErrors |-> <<"noInput">>, validNames |-> <<>>,
          invalidNames |-> <<>>, errors |-> <<>>,
          lastIndexes |-> lastIndexes]
    ELSE validateMultipleIngredients(nonEmptyPieces(pieces),
                                     existingIngredients, options,
                                     lastIndexes)

\* Ingredient objects for the names, with fresh ids from first on
newIngredients(names, first) ==
  [i \in DOMAIN names |-> [id |-> first + i - 1, name |-> names[i]]]

\* Names a user enters
HookNames == {Onion, TofuUpper, TofuLower}

\* Lists handed to addMultipleIngredients / importIngredients
HookBatches ==
  { <<Onion, Onion>>, <<TofuUpper, TofuLower>>, <<Onion, <<" ">> >> }

\* Comma-separated inputs, by their pieces
HookInputs == { <<Onion, TofuLower>>, <<Onion, Onion>>, << <<" ">> >> }

\* The hook after its first render.  ingredients is the state (with the
\* updates made so far), rendered the list the current callbacks see,
\* nextId the id of the next ingredient object
HookMounted ==
  [ingredients |-> <<>>, rendered |-> <<>>, errors |-> <<>>, nextId |-> 1]

HookInit ==
  /\ ServerIdle
  /\ frames = Unmounted
  /\ validator = ValidatorLoaded
  /\ mutation = Unmounted
  /\ ingredientsHook = HookMounted
  /\ imageUpload = Unmounted
  /\ page = Unmounted

\* React renders the component again: the callbacks are created anew and
\* see the current state
HookRender ==
  /\ ingredientsHook.rendered # ingredientsHook.ingredients
  /\ ingredientsHook' =
       [ingredientsHook EXCEPT !.rendered = ingredientsHook.ingredients]
  /\ UNCHANGED serverVars
  /\ UNCHANGED <<frames, validator, mutation, imageUpload, page>>

\* addIngredient(name)
HookAddIngredient ==
  /\ ingredientsHook.nextId <= MaxCreated
  /\ \E name \in HookNames :
       \E v \in {hookValidate(ingredientsHook.rendered, name, 0,
                               validator.lastIndexes)} :
       LET h == ingredientsHook
       IN IF ~canAddMore(h.rendered)
            THEN /\ ingredientsHook' = [h EXCEPT !.errors = <<"limit">>]
                 /\ UNCHANGED validator
          ELSE /\ validator' = [validator EXCEPT
                                  !.lastIndexes = v.lastIndexes]
               /\ ingredientsHook' =
                    IF ~v.isValid
                      THEN [h EXCEPT !.errors = v.errors]
                      ELSE [h EXCEPT
                              !.errors = <<>>,
                              !.ingredients =
                                 Append(@, [id |-> h.nextId,
                                            name |-> autoTrimmed(name)]),
                              !.nextId = @ + 1]
  /\ UNCHANGED serverVars
  /\ UNCHANGED <<frames, mutation, imageUpload, page>>

\* The hook and the patterns after addMultipleIngredients(names)
afterAddMultiple(h, names, lastIndexes) ==
  Only({ [hook |-> [h EXCEPT
                      !.errors = r.addErrors,
                      !.ingredients = @ \o newIngredients(r.added, h.nextId),
                      !.nextId = @ + Len(r.added)],
          lastIndexes |-> r.lastIndexes]
         : r \in {addMultipleLoop(h.rendered, names, lastIndexes)} })

\* addMultipleIngredients(names)
HookAddMultiple ==
  /\ \E names \in HookBatches :
       \E r \in {afterAddMultiple(ingredientsHook, names,
                                  validator.lastIndexes)} :
          /\ r.hook.nextId <= MaxCreated + 1
          /\ ingredientsHook' = r.hook
          /\ validator' = [validator EXCEPT !.lastIndexes = r.lastIndexes]
  /\ UNCHANGED serverVars
  /\ UNCHANGED <<frames, mutation, imageUpload, page>>

\* importIngredients(names): it calls addMultipleIngredients(names)
HookImport ==
  /\ \E names \in HookBatches :
       \E r \in {afterAddMultiple(ingredientsHook, names,
                                  validator.lastIndexes)} :
          /\ r.hook.nextId <= MaxCreated + 1
          /\ ingredientsHook' = r.hook
          /\ validator' = [validator EXCEPT !.lastIndexes = r.lastIndexes]
  /\ UNCHANGED serverVars
  /\ UNCHANGED <<frames, mutation, imageUpload, page>>

\* addCommaSeparatedIngredients(input)
HookAddCommaSeparated ==
  /\ \E pieces \in HookInputs :
       \E c \in {validateCommaSeparatedIngredients(
                    pieces, existingNames(ingredientsHook.rendered, 0),
                    hookValidationOptions(HookOptions),
                    validator.lastIndexes)} :
       LET h == ingredientsHook
           r == afterAddMultiple(h, c.validNames, c.lastIndexes)
       IN IF Len(c.globalErrors \o c.errors) > 0
            THEN /\ ingredientsHook' =
                      [h EXCEPT !.errors = c.globalErrors \o c.errors]
                 /\ validator' = [validator EXCEPT
                                    !.lastIndexes = c.lastIndexes]
            ELSE /\ r.hook.nextId <= MaxCreated + 1
                 /\ ingredientsHook' = r.hook
                 /\ validator' = [validator EXCEPT
                                    !.lastIndexes = r.lastIndexes]
  /\ UNCHANGED serverVars
  /\ UNCHANGED <<frames, mutation, imageUpload, page>>

\* updateIngredient(id, name) for an id of the rendered list
HookUpdate ==
  /\ \E k \in DOMAIN ingredientsHook.rendered, name \in HookNames :
       LET h == ingredientsHook
           id == h.rendered[k].id
           v == hookValidate(h.rendered, name, id, validator.lastIndexes)
       IN /\ validator' = [validator EXCEPT !.lastIndexes = v.lastIndexes]
          /\ ingredientsHook' =
               IF ~v.isValid
                 THEN [h EXCEPT !.errors = v.errors]
                 ELSE [h EXCEPT
                         !.errors = <<>>,
                         !.ingredients =
                            [i \in DOMAIN @ |->
                               IF @[i].id = id
                                 THEN [@[i] EXCEPT !.name = autoTrimmed(name)]
                                 ELSE @[i]]]
  /\ UNCHANGED serverVars
  /\ UNCHANGED <<frames, mutation, imageUpload, page>>

\* The list without the entry whose id is id
withoutId(list, id) ==
  LET keep == {i \in DOMAIN list : list[i].id # id}
  IN [k \in 1..Cardinality(keep) |->
        list[CHOOSE i \in keep : Cardinality({j \in keep : j <= i}) = k]]

\* removeIngredient(id) for an id of the rendered list
HookRemove ==
  /\ \E k \in DOMAIN ingredientsHook.rendered :
       ingredientsHook' =
         [ingredientsHook EXCEPT
            !.errors = <<>>,
            !.ingredients = withoutId(@, ingredientsHook.rendered[k].id)]
  /\ UNCHANGED serverVars
  /\ UNCHANGED <<frames, validator, mutation, imageUpload, page>>

\* clearIngredients()
HookClear ==
  /\ ingredientsHook.ingredients # <<>> \/ ingredientsHook.errors # <<>>
  /\ ingredientsHook' =
       [ingredientsHook EXCEPT !.errors = <<>>, !.ingredients = <<>>]
  /\ UNCHANGED serverVars
  /\ UNCHANGED <<frames, validator, mutation, imageUpload, page>>

HookNext ==
  \/ HookRender
  \/ HookAddIngredient
  \/ HookAddMultiple
  \/ HookImport
  \/ HookAddCommaSeparated
  \/ HookUpdate
  \/ HookRemove
  \/ HookClear

HookSpec == HookInit /\ [][HookNext]_vars

\* C27: after any sequence and interleaving of the operations of
\* useIngredients, two adds started from the same render included, the
\* ingredient list never holds more than maxIngredients entries
C27_NeverMoreThanMaxIngredients ==
  Len(ingredientsHook.ingredients) <= HookOptions.maxIngredients

\* C28: with allowDuplicates = false the ingredient list never contains
\* two entries whose names are equal ignoring letter case
C28_NoCaseInsensitiveDuplicates ==
  \A i, j \in DOMAIN ingredientsHook.ingredients :
    i # j => ToLower(ingredientsHook.ingredients[i].name)
               # ToLower(ingredientsHook.ingredients[j].name)

\* ------------------------------------------------------------------------
\* Frontend: the hook useImageUpload and the file validation it uses.  A
\* call of addImages validates against the image count of the render that
\* created the callback, awaits the preview of each file, and then appends
\* its images to the latest list.
\* ------------------------------------------------------------------------
\* DEFAULT_FILE_OPTIONS
DEFAULT_FILE_OPTIONS ==
  [maxSizeInMB |-> 5,
   allowedTypes |-> {"image/jpeg", "image/jpg", "image/png", "image/webp"},
   maxFiles |-> 10, autoGeneratePreview |-> TRUE]

\* The options of the hook in the runs: useImageUpload({ maxFiles: 2 })
UploadOptions == [DEFAULT_FILE_OPTIONS EXCEPT !.maxFiles = 2]

\* The number of image objects created in a run
MaxUploaded == 3

\* validateFileType(file, allowedTypes)
validateFileType(file, allowedTypes) ==
  IF file.type \notin allowedTypes
    THEN [isValid |-> FALSE, error |-> "type"]
    ELSE [isValid |-> TRUE, error |-> ""]

\* validateFileSize(file, maxSizeInMB)
validateFileSize(file, maxSizeInMB) ==
  IF file.size > maxSizeInMB * 1024 * 1024
    THEN [isValid |-> FALSE, error |-> "size"]
    ELSE [isValid |-> TRUE, error |-> ""]

\* validateFileCount(files, currentFileCount, maxFiles)
validateFileCount(files, currentFileCount, maxFiles) ==
  IF currentFileCount + Len(files) > maxFiles
    THEN [isValid |-> FALSE, error |-> "count"]
    ELSE [isValid |-> TRUE, error |-> ""]

\* validateSingleFile(file, options)
validateSingleFile(file, options) ==
  IF ~validateFileType(file, options.allowedTypes).isValid
    THEN validateFileType(file, options.allowedTypes)
  ELSE IF ~validateFileSize(file, options.maxSizeInMB).isValid
    THEN validateFileSize(file, options.maxSizeInMB)
  ELSE [isValid |-> TRUE, error |-> ""]

\* validateMultipleFiles(files, currentFileCount, options)
validateMultipleFiles(files, currentFileCount, options) ==
  LET valid == {i \in DOMAIN files :
                  validateSingleFile(files[i], options).isValid}
      invalid == DOMAIN files \ valid
  IN IF ~validateFileCount(files, currentFileCount, options.maxFiles).isValid
       THEN [validFiles |-> <<>>, errors |-> <<"count">>]
       ELSE [validFiles |->
               [k \in 1..Cardinality(valid) |->
                  files[CHOOSE i \in valid :
                          Cardinality({j \in valid : j <= i}) = k]],
             errors |->
               [k \in 1..Cardinality(invalid) |->
                  validateSingleFile(
                    files[CHOOSE i \in invalid :
                            Cardinality({j \in invalid : j <= i}) = k],
                    options).error]]

\* Files a user selects
Photo == [name |-> "a.png", size |-> 1024, type |-> "image/png"]

Scan == [name |-> "b.jpg", size |-> 2048, type |-> "image/jpeg"]

Clip == [name |-> "c.gif", size |-> 1024, type |-> "image/gif"]

Poster == [name |-> "d.png", size |-> 6 * 1024 * 1024, type |-> "image/png"]

\* The arguments of addImages
FileBatches ==
  { <<>>, <<Photo>>, <<Photo, Scan>>, <<Clip>>, <<Scan, Poster>>,
    <<Photo, Scan, Photo>> }

\* The calls of addImages that can be in flight together
UploadCalls == {1, 2}

\* The entry a splice inserts when it removed nothing
Undefined == [id |-> 0, name |-> "", size |-> 0, type |-> ""]

\* The hook after its first render.  images is the state (with the updates
\* made so far), rendered the list the current callbacks and the page see,
\* inFlight the calls of addImages that await previews: the files left and
\* the images made so far
UploadMounted ==
  [images |-> <<>>, rendered |-> <<>>, isLoading |-> FALSE, errors |-> <<>>,
   inFlight |-> [c \in UploadCalls |-> Absent], nextId |-> 1]

UploadInit ==
  /\ ServerIdle
  /\ frames = Unmounted
  /\ validator = Unmounted
  /\ mutation = Unmounted
  /\ ingredientsHook = Unmounted
  /\ imageUpload = UploadMounted
  /\ page = Unmounted

\* React renders the component again
UploadRender ==
  /\ imageUpload.rendered # imageUpload.images
  /\ imageUpload' = [imageUpload EXCEPT !.rendered = imageUpload.images]
  /\ UNCHANGED serverVars
  /\ UNCHANGED <<frames, validator, mutation, ingredientsHook, page>>

\* addImages(files) up to its first await
UploadAddImages ==
  /\ \E files \in FileBatches, c \in UploadCalls :
       LET u == imageUpload
           v == validateMultipleFiles(files, Len(u.rendered), UploadOptions)
       IN /\ ~IsPresent(u.inFlight[c])
          /\ \A d \in UploadCalls : d < c => IsPresent(u.inFlight[d])
          /\ imageUpload' =
               IF Len(files) = 0 THEN u
               ELSE IF Len(v.validFiles) = 0
                 THEN [u EXCEPT !.errors = v.errors, !.isLoading = FALSE]
               ELSE [u EXCEPT
                       !.errors = v.errors, !.isLoading = TRUE,
                       !.inFlight[c] = Some([files |-> v.validFiles,
                                             newImages |-> <<>>])]
  /\ UNCHANGED serverVars
  /\ UNCHANGED <<frames, validator, mutation, ingredientsHook, page>>

\* fileToDataURL settles for the next file of a call: the image is made or
\* the error is reported; after the last file the call appends its images
UploadPreview ==
  /\ \E c \in UploadCalls, loaded \in BOOLEAN :
       LET u == imageUpload
           call == Get(u.inFlight[c])
           file == Head(call.files)
           made == IF loaded
                     THEN Append(call.newImages,
                                 [id |-> u.nextId, name |-> file.name,
                                  size |-> file.size, type |-> file.type])
                     ELSE call.newImages
           failed == IF loaded THEN u.errors
                     ELSE Append(u.errors, "preview")
       IN /\ IsPresent(u.inFlight[c])
          /\ u.nextId <= MaxUploaded
          /\ imageUpload' =
               IF Len(call.files) > 1
                 THEN [u EXCEPT
                         !.errors = failed,
                         !.nextId = IF loaded THEN @ + 1 ELSE @,
                         !.inFlight[c] = Some([files |-> Tail(call.files),
                                               newImages |-> made])]
                 ELSE [u EXCEPT
                         !.errors = failed,
                         !.nextId = IF loaded THEN @ + 1 ELSE @,
                         !.images = @ \o made,
                         !.isLoading = FALSE,
                         !.inFlight[c] = Absent]
  /\ UNCHANGED serverVars
  /\ UNCHANGED <<frames, validator, mutation, ingredientsHook, page>>

\* removeImage(id) for an image the page shows
UploadRemoveImage ==
  /\ \E k \in DOMAIN imageUpload.rendered :
       LET id == imageUpload.rendered[k].id
       IN imageUpload' =
            [imageUpload EXCEPT !.errors = <<>>,
                                !.images = withoutId(@, id)]
  /\ UNCHANGED serverVars
  /\ UNCHANGED <<frames, validator, mutation, ingredientsHook, page>>

\* clearImages()
UploadClearImages ==
  /\ imageUpload.images # <<>> \/ imageUpload.errors # <<>>
  /\ imageUpload' = [imageUpload EXCEPT !.errors = <<>>, !.images = <<>>]
  /\ UNCHANGED serverVars
  /\ UNCHANGED <<frames, validator, mutation, ingredientsHook, page>>

\* const [removed] = result.splice(startIndex, 1);
\* result.splice(endIndex, 0, removed)   (indexes from 0)
spliceMove(list, startIndex, endIndex) ==
  LET removed == IF startIndex < Len(list) THEN list[startIndex + 1]
                 ELSE Undefined
      rest == [k \in 1..(IF startIndex < Len(list) THEN Len(list) - 1
                         ELSE Len(list)) |->
                 IF k <= startIndex THEN list[k] ELSE list[k + 1]]
      at == IF endIndex < Len(rest) THEN endIndex ELSE Len(rest)
  IN SubSeq(rest, 1, at) \o <<removed>> \o SubSeq(rest, at + 1, Len(rest))

\* reorderImages(startIndex, endIndex)
UploadReorderImages ==
  /\ \E startIndex, endIndex \in 0..1 :
       /\ startIndex # endIndex
       /\ ~(startIndex >= Len(imageUpload.rendered)
            \/ endIndex >= Len(imageUpload.rendered))
       /\ imageUpload' =
            [imageUpload EXCEPT
               !.images = spliceMove(@, startIndex, endIndex)]
  /\ UNCHANGED serverVars
  /\ UNCHANGED <<frames, validator, mutation, ingredientsHook, page>>

UploadNext ==
  \/ UploadRender
  \/ UploadAddImages
  \/ UploadPreview
  \/ UploadRemoveImage
  \/ UploadClearImages
  \/ UploadReorderImages

UploadSpec == UploadInit /\ [][UploadNext]_vars

\* C29: after any sequence and interleaving of the operations of
\* useImageUpload, two addImages calls whose previews overlap included, the
\* image list never holds more than maxFiles images
C29_NeverMoreThanMaxFiles ==
  Len(imageUpload.images) <= UploadOptions.maxFiles

\* ------------------------------------------------------------------------
\* Frontend: the Home page (app/page.tsx) with the components it renders
\* in each step.  User events are handled one at a time, each on the
\* latest render; the continuation of an await and the callbacks of a
\* mutation run later.
\* ------------------------------------------------------------------------
\* The number of files a user selects while one ImageUpload is mounted
MaxSelected == 2

\* The names a user types into SimpleIngredientManager
PageNames == {Onion, TofuLower, <<" ">>}

\* <SimpleIngredientManager maxIngredients={50} />
maxIngredients == 50

\* The recipes a generation returns
PageRecipes == {GoodObject, MessyObject}

\* The page after its first render.  childImages are the images of the
\* mounted ImageUpload, childIngredients the list of the mounted
\* SimpleIngredientManager, selecting the calls of handleFileSelect that
\* await addImages (each with the images its notifyParent will pass),
\* generating tells that a mutation of the mounted RecipeGenerateButton is
\* pending
PageMounted ==
  [currentStep |-> "upload", uploadedImages |-> <<>>, ingredients |-> <<>>,
   generatedRecipe |-> Absent, childImages |-> <<>>,
   childIngredients |-> <<>>, selecting |-> <<>>, generating |-> FALSE]

PageInit ==
  /\ ServerIdle
  /\ frames = Unmounted
  /\ validator = Unmounted
  /\ mutation = Unmounted
  /\ ingredientsHook = Unmounted
  /\ imageUpload = Unmounted
  /\ page = PageMounted

\* A guard that lets the user proceed without ingredients
canProceed_always(list) == TRUE

\* handleProceedToRecipe: if (ingredients.length > 0); the button is
\* disabled when ingredients.length === 0
canProceed(list) == Len(list) > 0

\* handleImagesUploaded(images)
handleImagesUploaded(p, images) ==
  [p EXCEPT !.uploadedImages = images,
            !.currentStep = IF Len(images) > 0 THEN "ingredients" ELSE @]

\* The page p after a change of step: the components of the step left are
\* unmounted (their state is dropped, the callbacks of their pending
\* mutation no longer fire), those of the new step mount with empty state;
\* an ImageUpload calls notifyParent with no images when it mounts
toStep(p, step) ==
  IF step = p.currentStep THEN p
  ELSE LET q == [p EXCEPT !.currentStep = step, !.childImages = <<>>,
                          !.childIngredients = <<>>, !.generating = FALSE]
       IN IF step = "upload" THEN handleImagesUploaded(q, <<>>) ELSE q

\* handleRecipeGenerated(recipe)
handleRecipeGenerated(p, recipe) ==
  toStep([p EXCEPT !.generatedRecipe = Some(recipe)], "complete")

\* handleReset()
handleReset(p) ==
  toStep([p EXCEPT !.uploadedImages = <<>>, !.ingredients = <<>>,
                   !.generatedRecipe = Absent], "upload")

\* ImageUpload.handleFileSelect up to await addImages(files): the
\* notifyParent it will call passes the images of the current render
PageSelectFiles ==
  /\ page.currentStep = "upload"
  /\ Len(page.childImages) + Len(page.selecting) < MaxSelected
  /\ page' = [page EXCEPT !.selecting = Append(@, page.childImages)]
  /\ UNCHANGED serverVars
  /\ UNCHANGED <<frames, validator, mutation, ingredientsHook, imageUpload>>

\* addImages resolves: the hook of a mounted ImageUpload holds one more
\* image, and notifyParent calls handleImagesUploaded
PageFilesAdded ==
  /\ page.selecting # <<>>
  /\ LET withImage ==
           IF page.currentStep = "upload"
             THEN [page EXCEPT !.childImages = Append(@, Photo),
                               !.selecting = Tail(@)]
             ELSE [page EXCEPT !.selecting = Tail(@)]
         next == handleImagesUploaded(withImage, Head(page.selecting))
     IN page' = IF next.currentStep = withImage.currentStep THEN next
                ELSE [toStep(withImage, next.currentStep)
                        EXCEPT !.uploadedImages = next.uploadedImages]
  /\ UNCHANGED serverVars
  /\ UNCHANGED <<frames, validator, mutation, ingredientsHook, imageUpload>>

\* ImageUpload.handleRemoveImage / handleClearAll: the images go and
\* notifyParent passes the images of the current render
PageRemoveImages ==
  /\ page.currentStep = "upload"
  /\ page.childImages # <<>>
  /\ \E keep \in {<<>>, Tail(page.childImages)} :
       LET next == handleImagesUploaded([page EXCEPT !.childImages = keep],
                                        page.childImages)
       IN page' = [toStep([page EXCEPT !.childImages = keep],
                          next.currentStep)
                     EXCEPT !.uploadedImages = next.uploadedImages]
  /\ UNCHANGED serverVars
  /\ UNCHANGED <<frames, validator, mutation, ingredientsHook, imageUpload>>

\* The skip button of the upload step
PageSkipUpload ==
  /\ page.currentStep = "upload"
  /\ page' = toStep(page, "ingredients")
  /\ UNCHANGED serverVars
  /\ UNCHANGED <<frames, validator, mutation, ingredientsHook, imageUpload>>

\* SimpleIngredientManager.handleAddIngredient, then handleIngredientsChange
PageAddIngredient ==
  /\ page.currentStep = "ingredients"
  /\ \E typed \in PageNames :
       LET trimmed == Trim(typed)
           changed == Append(page.childIngredients, trimmed)
       IN /\ trimmed # <<>>
          /\ \A k \in DOMAIN page.childIngredients :
               page.childIngredients[k] # trimmed
          /\ Len(page.childIngredients) < maxIngredients
          /\ page' = [page EXCEPT !.childIngredients = changed,
                                  !.ingredients = changed]
  /\ UNCHANGED serverVars
  /\ UNCHANGED <<frames, validator, mutation, ingredientsHook, imageUpload>>

\* SimpleIngredientManager.handleRemoveIngredient(index), then
\* handleIngredientsChange
PageRemoveIngredient ==
  /\ page.currentStep = "ingredients"
  /\ \E index \in DOMAIN page.childIngredients :
       LET changed ==
             SubSeq(page.childIngredients, 1, index - 1)
             \o SubSeq(page.childIngredients, index + 1,
                       Len(page.childIngredients))
       IN page' = [page EXCEPT !.childIngredients = changed,
                               !.ingredients = changed]
  /\ UNCHANGED serverVars
  /\ UNCHANGED <<frames, validator, mutation, ingredientsHook, imageUpload>>

\* The back button of the ingredients step
PageBackToUpload ==
  /\ page.currentStep = "ingredients"
  /\ page' = toStep(page, "upload")
  /\ UNCHANGED serverVars
  /\ UNCHANGED <<frames, validator, mutation, ingredientsHook, imageUpload>>

\* The button that proceeds to the recipe: handleProceedToRecipe
PageProceedToRecipe ==
  /\ page.currentStep = "ingredients"
  /\ canProceed(page.ingredients)
  /\ page' = toStep(page, "recipe")
  /\ UNCHANGED serverVars
  /\ UNCHANGED <<frames, validator, mutation, ingredientsHook, imageUpload>>

\* RecipeGenerateButton.handleGenerateRecipe: mutate(request, callbacks)
PageGenerate ==
  /\ page.currentStep \in {"recipe", "complete"}
  /\ page.currentStep = "complete" => IsPresent(page.generatedRecipe)
  /\ Len(page.ingredients) > 0
  /\ ~page.generating
  /\ page' = [page EXCEPT !.generating = TRUE]
  /\ UNCHANGED serverVars
  /\ UNCHANGED <<frames, validator, mutation, ingredientsHook, imageUpload>>

\* The mutation settles while its button is mounted: onSuccess with a
\* recipe calls handleRecipeGenerated, anything else leaves the page as
\* it is
PageGenerationSettled ==
  /\ page.generating
  /\ \/ \E recipe \in PageRecipes :
          page' = [handleRecipeGenerated(page, recipe)
                     EXCEPT !.generating = FALSE]
     \/ page' = [page EXCEPT !.generating = FALSE]
  /\ UNCHANGED serverVars
  /\ UNCHANGED <<frames, validator, mutation, ingredientsHook, imageUpload>>

\* The back button of the recipe step
PageBackToIngredients ==
  /\ page.currentStep = "recipe"
  /\ page' = toStep(page, "ingredients")
  /\ UNCHANGED serverVars
  /\ UNCHANGED <<frames, validator, mutation, ingredientsHook, imageUpload>>

\* The button of the complete step: handleReset
PageReset ==
  /\ page.currentStep = "complete"
  /\ IsPresent(page.generatedRecipe)
  /\ page' = handleReset(page)
  /\ UNCHANGED serverVars
  /\ UNCHANGED <<frames, validator, mutation, ingredientsHook, imageUpload>>

PageNext ==
  \/ PageSelectFiles
  \/ PageFilesAdded
  \/ PageRemoveImages
  \/ PageSkipUpload
  \/ PageAddIngredient
  \/ PageRemoveIngredient
  \/ PageBackToUpload
  \/ PageProceedToRecipe
  \/ PageGenerate
  \/ PageGenerationSettled
  \/ PageBackToIngredients
  \/ PageReset

PageSpec == PageInit /\ [][PageNext]_vars

\* The step needs what the page holds
StepHasItsData ==
  /\ page.currentStep \in {"upload", "ingredients", "recipe", "complete"}
  /\ page.currentStep \in {"recipe", "complete"} => page.ingredients # <<>>
  /\ page.currentStep = "complete" => IsPresent(page.generatedRecipe)

\* The page is at its first step with nothing stored
PageCleared ==
  /\ page.currentStep = "upload"
  /\ page.uploadedImages = <<>>
  /\ page.ingredients = <<>>
  /\ ~IsPresent(page.generatedRecipe)

\* C30: in every reachable state the step is 'recipe' or 'complete' only
\* if the ingredient list is non-empty and 'complete' only if a generated
\* recipe is stored, and the reset action returns to step 'upload' with
\* images, ingredients and recipe all cleared
C30_StepsHaveTheirData ==
  [](StepHasItsData) /\ [][PageReset => PageCleared']_vars

\* The flow reached its last step: ingredients were entered, a recipe was
\* generated and is stored, and images had been uploaded
C30_Witness ==
  /\ page.currentStep = "complete"
  /\ IsPresent(page.generatedRecipe)
  /\ page.ingredients # <<>>
  /\ page.uploadedImages # <<>>

====
